---- MODULE Spec2Model ----
(***************************************************************************)
(* A model of the agent execution engine of deepseek-code: the bounded     *)
(* conversation memory (createMemory / addToMemory) and the step loop of   *)
(* BaseAgent (run, setState, log, clearMemory, isStuck, handleStuck).      *)
(*                                                                         *)
(* JavaScript runs one piece of synchronous code at a time; an async       *)
(* function is suspended only at an await.  Each action below is therefore *)
(* the code between two suspension points of run(), or one whole call of a *)
(* synchronous public method.                                              *)
(***************************************************************************)
EXTENDS Integers, Sequences, FiniteSets, TLC

\* ------------------------------------------------------------------------
\* Bounds of the model
\* ------------------------------------------------------------------------
MaxMem == 3          \* largest maxMessages a tested memory is created with
MaxAppends == 5      \* appends made to the tested memory
MaxStepsBound == 4   \* largest maxSteps an agent is configured with
MaxRuns == 2         \* calls of run() made on the one agent instance
MaxToolCalls == 2    \* tool calls one assistant turn carries
MaxTurns == 7        \* turns one conversation appends to its memory
MaxExecutions == 3   \* calls of ToolCollection.execute on one collection
MaxTasks == 3        \* prompts handed to runMultiTasks
MaxQueued == 2       \* tasks submitted to the interactive queue
MaxLines == 3        \* input lines the interactive queue handles
MaxCalls == 3        \* external calls a loop issues, one after another
MaxUsers == 3        \* createUser calls on one UserStore
MaxRequests == 3     \* requests the REST application serves
MaxAgents == 3       \* CodingAgents constructed in one process

\* ------------------------------------------------------------------------
\* Program constants
\* ------------------------------------------------------------------------
AgentMemoryMax == 100   \* createMemory(100) in the constructor and clearMemory
StuckWindow == 4        \* messages.slice(-4) in isStuck
DefaultMaxSteps == 20   \* config.maxSteps || 20
DisplayLimit == 500     \* prevResult.slice(0, 500) in runPipeline
MAX_HISTORY == 20       \* directories kept in dirHistory
DefaultShellTimeout == 60000  \* BashTool: (args.timeout as number) || 60000

VARIABLES
    mem,          \* a Memory value that addToMemory is applied to
    appended,     \* every message appended to mem so far, in order
    state,        \* BaseAgent._state
    currentStep,  \* BaseAgent.currentStep
    maxSteps,     \* BaseAgent.maxSteps
    memory,       \* BaseAgent.memory
    logs,         \* BaseAgent.logs
    onLog,        \* BaseAgent.onLog, by what the handler does
    runs,         \* the calls of run(): where each one stands
    tools,        \* ToolCollection.tools: name -> what the tool's execute does
    lastCall,     \* the last ToolCollection.execute: its inputs and result
    executed,     \* the calls of ToolCollection.execute made so far
    multiPc,      \* runMultiTasks: not called, waiting on Promise.all, done
    tasks,        \* runMultiTasks: the promise of each prompt's callback
    totalUsage,   \* runMultiTasks: totalUsage
    results,      \* runMultiTasks: results, once Promise.all has resolved
    order,        \* the tasks in the order they settled
    pipePc,       \* runPipeline: not called, awaiting a stage, finished
    stageIndex,   \* runPipeline: i, counted from 1
    pipePrompt,   \* runPipeline: prompt
    prevResult,   \* runPipeline: prevResult
    stageResults, \* runPipeline: stageResults
    pipelineUsage,\* runPipeline: totalUsage
    stagesRun,    \* the stages started so far: prompt and outcome of each
    pipeReport,   \* runPipeline: what it prints after the loop, and the exit
    apiKey,       \* process.env.DEEPSEEK_API_KEY is set
    defaultLLM,   \* llm.ts defaultLLM is set
    taskPc,       \* runCodingTask: not called, running, resolved, rejected
    handle,       \* runCodingTask: what its promise settled with
    qTasks,       \* runInteractiveMode: tasks
    taskId,       \* runInteractiveMode: taskId
    totalTokens,  \* runInteractiveMode: totalTokens
    armed,        \* rl.question callbacks waiting for a line
    exited,       \* process.exit was called
    reports,      \* the completion and failure lines printed, numbered per task
    cwd,          \* process.cwd()
    dirHistory,   \* dirHistory
    lines,        \* input lines handled so far
    externalCalls, \* the model requests, shell commands and fetches issued
    userStore,    \* server.ts: the UserStore (users, idCounter)
    created,      \* every user createUser returned, in the order of the calls
    removed,      \* how many deleteUser calls returned true
    responses,    \* the REST application's answers, in order
    currentModelId,   \* models.ts: currentModelId
    defaultLLMModel,  \* llm.ts: the model of the cached default LLM ("" while none)
    agents,           \* the CodingAgents constructed, in order
    streamPc,         \* runAgentStream: where the generator is
    lastYieldedIndex, \* runAgentStream: lastYieldedIndex
    yielded,          \* runAgentStream: the events yielded so far
    streamResult      \* runAgentStream: what the generator ended with

vars == <<mem, appended, state, currentStep, maxSteps, memory, logs, onLog, runs,
          tools, lastCall, executed, multiPc, tasks, totalUsage, results, order,
          pipePc, stageIndex, pipePrompt, prevResult, stageResults,
          pipelineUsage, stagesRun, pipeReport,
          apiKey, defaultLLM, taskPc, handle,
          qTasks, taskId, totalTokens, armed, exited, reports, cwd,
          dirHistory, lines, externalCalls, userStore, created, removed,
          responses, currentModelId, defaultLLMModel, agents, streamPc,
          lastYieldedIndex, yielded, streamResult>>
toolVars == <<tools, lastCall, executed>>
multiVars == <<multiPc, tasks, totalUsage, results, order>>
pipeVars == <<pipePc, stageIndex, pipePrompt, prevResult, stageResults,
              pipelineUsage, stagesRun, pipeReport>>
taskVars == <<apiKey, defaultLLM, taskPc, handle>>
queueVars == <<qTasks, taskId, totalTokens, armed, exited, reports, cwd,
               dirHistory, lines>>
callVars == <<externalCalls>>
storeVars == <<userStore, created, removed, responses>>
modelVars == <<currentModelId, defaultLLMModel, agents>>
streamVars == <<streamPc, lastYieldedIndex, yielded, streamResult>>
laterVars == <<taskVars, queueVars, callVars, storeVars, modelVars, streamVars>>
restVars == <<toolVars, multiVars, pipeVars, laterVars>>
memVars == <<mem, appended>>
agentVars == <<state, currentStep, maxSteps, memory, logs, onLog, runs>>

\* ------------------------------------------------------------------------
\* types.ts: enums, messages
\* ------------------------------------------------------------------------
Role == {"system", "user", "assistant", "tool"}
AgentState == {"idle", "running", "finished", "error"}

\* A content that is absent (null) is the value "<null>".
createMessage(role, content, toolCalls, toolCallId) ==
    [role |-> role, content |-> content, toolCalls |-> toolCalls,
     toolCallId |-> toolCallId]

userMessage(content) == createMessage("user", content, <<>>, "")
systemMessage(content) == createMessage("system", content, <<>>, "")
assistantMessage(content, toolCalls) ==
    createMessage("assistant", content, toolCalls, "")
\* The tool-result turn without its back-reference (a mutant).
toolMessage_withoutId(content, toolCallId) ==
    createMessage("tool", content, <<>>, "")

toolMessage(content, toolCallId) == createMessage("tool", content, <<>>, toolCallId)

IsSystem(m) == m.role = "system"
NotSystem(m) == m.role # "system"

\* Array.prototype.slice(start): a negative start counts from the end, and
\* both are clamped to the array.
Slice(s, start) ==
    LET n == Len(s)
        from == IF start < 0
                THEN (IF n + start < 0 THEN 0 ELSE n + start)
                ELSE (IF start > n THEN n ELSE start)
    IN SubSeq(s, from + 1, n)

\* getLastMessages: memory.messages.slice(-count); -0 is 0, the whole list.
getLastMessages(m, count) == Slice(m.messages, 0 - count)

\* maxMessages undefined is the value 0: both are falsy in the test of
\* addToMemory.
createMemory(maxMessages) == [messages |-> <<>>, maxMessages |-> maxMessages]

\* addToMemory with the system turns evicted like any other (a mutant).
addToMemory_evictsAny(m, message) ==
    LET messages == Append(m.messages, message)
    IN IF m.maxMessages # 0 /\ Len(messages) > m.maxMessages
       THEN [m EXCEPT !.messages = Slice(messages, -m.maxMessages)]
       ELSE [m EXCEPT !.messages = messages]

addToMemory(m, message) ==
    LET messages == Append(m.messages, message)
    IN IF m.maxMessages # 0 /\ Len(messages) > m.maxMessages
       THEN LET systemMessages == SelectSeq(messages, IsSystem)
                otherMessages == SelectSeq(messages, NotSystem)
                trimmed == Slice(otherMessages,
                                 -m.maxMessages + Len(systemMessages))
            IN [m EXCEPT !.messages = systemMessages \o trimmed]
       ELSE [m EXCEPT !.messages = messages]

\* ------------------------------------------------------------------------
\* BaseAgent: the fields as one record, and the synchronous methods
\* ------------------------------------------------------------------------
\* What run() returns, and the faults it raises.
DefaultDoneMessage == "task-completed"      \* the default completion text
BudgetMessage == "max-steps-reached"        \* the budget-exhausted text
ReentrancyFault == "agent-is-already"       \* Error(`Agent is already ...`)
StepFault == "step-fault"                   \* whatever step() raised
HandlerFault == "log-handler-fault"         \* whatever the log handler raised

\* The handlers installed with setLogHandler, by the level of the events they
\* raise on; "unset" is no handler, "records" one that never raises.
Handlers == {"unset", "records", "raisesOnInfo", "raisesOnWarning", "raisesOnError"}

HandlerRaises(h, level) ==
    \/ h = "raisesOnInfo" /\ level = "info"
    \/ h = "raisesOnWarning" /\ level = "warning"
    \/ h = "raisesOnError" /\ level = "error"

Agent == [state |-> state, currentStep |-> currentStep, memory |-> memory,
          logs |-> logs]

\* A method that may raise: the fields it leaves, and whether it raised.
Done(a) == [a |-> a, raised |-> FALSE]
Raised(a) == [a |-> a, raised |-> TRUE]

\* log: the event is pushed first, then handed to the handler.
log(a, level, message) ==
    LET pushed == [a EXCEPT !.logs = Append(@, [level |-> level, message |-> message])]
    IN IF HandlerRaises(onLog, level) THEN Raised(pushed) ELSE Done(pushed)

StateChange(prev, next) == [kind |-> "state", from |-> prev, to |-> next]
Event(kind) == [kind |-> kind, from |-> "", to |-> ""]

setState(a, s) ==
    log([a EXCEPT !.state = s], "info", StateChange(a.state, s))

isRunning(a) == a.state = "running"

updateMemory(a, message) == [a EXCEPT !.memory = addToMemory(@, message)]

\* isStuck: two assistant turns of equal content among the last four turns.
\* isStuck looking at the whole memory instead of its last turns (a mutant).
isStuck_wholeMemory(a) ==
    LET messages == a.memory.messages
        assistantMessages == SelectSeq(messages, LAMBDA m : m.role = "assistant")
        contents == {assistantMessages[i].content :
                        i \in 1..Len(assistantMessages)}
    IN IF Len(messages) < StuckWindow THEN FALSE
       ELSE IF Len(assistantMessages) < 2 THEN FALSE
       ELSE Cardinality(contents) < Len(assistantMessages)

\* isStuck telling assistant turns apart by their tool calls too (a mutant).
isStuck_comparesToolCalls(a) ==
    LET messages == a.memory.messages
        recent == Slice(messages, -StuckWindow)
        assistantMessages == SelectSeq(recent, LAMBDA m : m.role = "assistant")
        contents == {<<assistantMessages[i].content,
                       assistantMessages[i].toolCalls>> :
                        i \in 1..Len(assistantMessages)}
    IN IF Len(messages) < StuckWindow THEN FALSE
       ELSE IF Len(assistantMessages) < 2 THEN FALSE
       ELSE Cardinality(contents) < Len(assistantMessages)

isStuck(a) ==
    LET messages == a.memory.messages
        recent == Slice(messages, -StuckWindow)
        assistantMessages == SelectSeq(recent, LAMBDA m : m.role = "assistant")
        contents == {assistantMessages[i].content :
                        i \in 1..Len(assistantMessages)}
    IN IF Len(messages) < StuckWindow THEN FALSE
       ELSE IF Len(assistantMessages) < 2 THEN FALSE
       ELSE Cardinality(contents) < Len(assistantMessages)

\* handleStuck appending its turn twice (a mutant).
handleStuck_twice(a) ==
    LET l == log(a, "warning", Event("stuck"))
        once == updateMemory(l.a, systemMessage("change-strategy"))
    IN IF l.raised THEN l
       ELSE Done(updateMemory(once, systemMessage("change-strategy")))

handleStuck(a) ==
    LET l == log(a, "warning", Event("stuck"))
    IN IF l.raised THEN l
       ELSE Done(updateMemory(l.a, systemMessage("change-strategy")))

\* ------------------------------------------------------------------------
\* BaseAgent.run, from one suspension point to the next
\* ------------------------------------------------------------------------
\* Where a call of run() stands after a piece of its code: suspended at
\* `await this.step()`, returned with a message, or raised a fault.
Awaiting(a) == [a |-> a, pc |-> "await", out |-> "", fault |-> ""]
Returned(a, message) == [a |-> a, pc |-> "returned", out |-> message, fault |-> ""]
Threw(a, fault) == [a |-> a, pc |-> "raised", out |-> "", fault |-> fault]

\* run() rejected only while a run is in progress (a mutant).
RunRejected_onlyRunning(a) == a.state = "running"

\* The test of line 186.
RunRejected(a) == a.state # "idle"

\* The catch block: the state becomes error, the fault is logged and raised
\* again.  A fault of the handler inside the block replaces it.
CatchBlock(a, fault) ==
    LET s == setState(a, "error")
        l == log(s.a, "error", Event("fault"))
    IN IF s.raised THEN Threw(s.a, HandlerFault)
       ELSE IF l.raised THEN Threw(l.a, HandlerFault)
       ELSE Threw(l.a, fault)

\* The while condition with <= for < (a mutant).
LoopCondition_offByOne(a, max) == a.currentStep <= max /\ isRunning(a)

\* The while condition of line 201.
LoopCondition(a, max) == a.currentStep < max /\ isRunning(a)

\* The test of line 221 with > for >= (a mutant).
BudgetReached_strict(a, max) == a.currentStep > max

\* The test of line 221.
BudgetReached(a, max) == a.currentStep >= max

\* Lines 220-227: after the loop.
AfterLoop(a) ==
    IF BudgetReached(a, maxSteps)
    THEN LET s == setState(a, "finished")
             l == log(s.a, "warning", Event("max-steps"))
         IN IF s.raised THEN CatchBlock(s.a, HandlerFault)
            ELSE IF l.raised THEN CatchBlock(l.a, HandlerFault)
            ELSE Returned(l.a, BudgetMessage)
    ELSE Returned(a, DefaultDoneMessage)

\* Lines 201-211: the loop test and the body up to `await this.step()`.
LoopHead(a) ==
    IF LoopCondition(a, maxSteps)
    THEN LET counted == [a EXCEPT !.currentStep = @ + 1]
             l == log(counted, "info", Event("step"))
             h == IF isStuck(l.a) THEN handleStuck(l.a) ELSE Done(l.a)
         IN IF l.raised THEN CatchBlock(l.a, HandlerFault)
            ELSE IF h.raised THEN CatchBlock(h.a, HandlerFault)
            ELSE Awaiting(h.a)
    ELSE AfterLoop(a)

\* Lines 184-211: a call of run() up to its first suspension.
RunEntry(a, request) ==
    IF RunRejected(a) THEN Threw(a, ReentrancyFault)
    ELSE LET s == setState(a, "running")
             l == log(s.a, "info", Event("start"))
             m1 == updateMemory(l.a, systemMessage("system-prompt"))
             m2 == updateMemory(m1, userMessage(request))
         IN IF s.raised THEN Threw(s.a, HandlerFault)
            ELSE IF l.raised THEN Threw(l.a, HandlerFault)
            ELSE LoopHead(m2)

\* The step's own message dropped (a mutant).
FinalMessage_alwaysDefault(message) == DefaultDoneMessage

\* Line 216: the message of a terminating step, or the default one.
FinalMessage(message) == IF message # "" THEN message ELSE DefaultDoneMessage

\* A fault of the step ignored and the loop continued (a mutant).
StepSettled_ignoresFault(a, result) ==
    IF result.raised THEN LoopHead(a)
    ELSE IF result.shouldFinish
    THEN LET s == setState(a, "finished")
             l == log(s.a, "info", Event("done"))
         IN IF s.raised THEN CatchBlock(s.a, HandlerFault)
            ELSE IF l.raised THEN CatchBlock(l.a, HandlerFault)
            ELSE Returned(l.a, FinalMessage(result.message))
    ELSE LoopHead(a)

\* Lines 211-218: step() has settled.  result.raised is a fault of the step;
\* otherwise result.shouldFinish and result.message are what it returned.
StepSettled(a, result) ==
    IF result.raised THEN CatchBlock(a, StepFault)
    ELSE IF result.shouldFinish
    THEN LET s == setState(a, "finished")
             l == log(s.a, "info", Event("done"))
         IN IF s.raised THEN CatchBlock(s.a, HandlerFault)
            ELSE IF l.raised THEN CatchBlock(l.a, HandlerFault)
            ELSE Returned(l.a, FinalMessage(result.message))
    ELSE LoopHead(a)

\* ------------------------------------------------------------------------
\* tools/base.ts: BaseTool.call and ToolCollection
\* ------------------------------------------------------------------------
Absent == "<absent>"         \* a field that is undefined

successResponse(output) == [output |-> output, error |-> Absent]
failResponse(error) == [output |-> Absent, error |-> error]
NoResult == [output |-> Absent, error |-> Absent]

\* A tool by what its own execute does: it resolves with a ToolResult or
\* raises; what it raises is an Error with a message or some other value.
ToolKinds == {"succeeds", "reportsFailure", "needsPath", "raisesError",
              "raisesEmptyError", "raisesValue"}
ArgMaps == {"no-arguments", "path-given"}

Resolves(result) ==
    [raised |-> FALSE, isError |-> FALSE, message |-> "", result |-> result]
Rejects(isError, message) ==
    [raised |-> TRUE, isError |-> isError, message |-> message,
     result |-> NoResult]

ToolExecute(kind, args) ==
    CASE kind = "succeeds" -> Resolves(successResponse("output"))
      [] kind = "reportsFailure" -> Resolves(failResponse("tool-failure"))
      [] kind = "needsPath" ->
            IF args = "path-given" THEN Resolves(successResponse("output"))
            ELSE Rejects(TRUE, "path-missing")
      [] kind = "raisesError" -> Rejects(TRUE, "tool-fault")
      [] kind = "raisesEmptyError" -> Rejects(TRUE, "")
      [] OTHER -> Rejects(FALSE, "")

\* BaseTool.call without its catch (a mutant).
call_rethrows(kind, args) ==
    LET e == ToolExecute(kind, args)
    IN [result |-> e.result, raised |-> e.raised]

\* BaseTool.call: whatever execute raises becomes a failure result.
call(kind, args) ==
    LET e == ToolExecute(kind, args)
    IN IF e.raised
       THEN [result |-> failResponse(IF e.isError THEN e.message
                                     ELSE "Unknown error"),
             raised |-> FALSE]
       ELSE [result |-> e.result, raised |-> FALSE]

\* ToolCollection: the map from names to tools.
NoTools == [n \in {} |-> Absent]
add(reg, name, kind) ==
    [n \in DOMAIN reg \cup {name} |-> IF n = name THEN kind ELSE reg[n]]
get(reg, name) == IF name \in DOMAIN reg THEN reg[name] ELSE Absent
getNames(reg) == DOMAIN reg
size(reg) == Cardinality(DOMAIN reg)

\* execute raising on a name it does not know (a mutant).
execute_raisesOnUnknown(reg, name, args) ==
    LET tool == get(reg, name)
    IN IF tool = Absent
       THEN [result |-> NoResult, raised |-> TRUE, tools |-> reg]
       ELSE [result |-> call(tool, args).result,
             raised |-> call(tool, args).raised, tools |-> reg]

\* execute dropping the tool it has just called (a mutant).
execute_unregisters(reg, name, args) ==
    LET tool == get(reg, name)
    IN IF tool = Absent
       THEN [result |-> failResponse("Tool not found: " \o name),
             raised |-> FALSE, tools |-> reg]
       ELSE [result |-> call(tool, args).result,
             raised |-> call(tool, args).raised,
             tools |-> [n \in DOMAIN reg \ {name} |-> reg[n]]]

\* ToolCollection.execute: the result, whether the call raised, and the map
\* it leaves.
execute(reg, name, args) ==
    LET tool == get(reg, name)
    IN IF tool = Absent
       THEN [result |-> failResponse("Tool not found: " \o name),
             raised |-> FALSE, tools |-> reg]
       ELSE [result |-> call(tool, args).result,
             raised |-> call(tool, args).raised, tools |-> reg]

NoCall == [name |-> Absent, args |-> Absent, registered |-> FALSE,
           toolRaised |-> FALSE, result |-> NoResult, raised |-> FALSE,
           again |-> FALSE]

ToolInit == tools = NoTools /\ lastCall = NoCall /\ executed = 0

\* ------------------------------------------------------------------------
\* runCodingTask as its callers see it, and runMultiTasks (cli.ts)
\* ------------------------------------------------------------------------
ZeroUsage == [promptTokens |-> 0, completionTokens |-> 0, totalTokens |-> 0]
Usages == {[promptTokens |-> 1, completionTokens |-> 1, totalTokens |-> 2],
           [promptTokens |-> 2, completionTokens |-> 1, totalTokens |-> 3]}

addUsage(total, usage) ==
    [promptTokens |-> total.promptTokens + usage.promptTokens,
     completionTokens |-> total.completionTokens + usage.completionTokens,
     totalTokens |-> total.totalTokens + usage.totalTokens]

\* How a call of runCodingTask settles: it resolves with success and the
\* run's message, resolves with failure and the fault's message (run
\* raised), or rejects (the agent could not be constructed).
CodingTaskOutcomes ==
    {[kind |-> "success", success |-> TRUE, raised |-> FALSE,
      result |-> text, usage |-> u] : text \in {"plan", "code"}, u \in Usages}
    \cup {[kind |-> "failure", success |-> FALSE, raised |-> FALSE,
           result |-> "run-fault", usage |-> u] : u \in Usages}
    \cup {[kind |-> "raise", success |-> FALSE, raised |-> TRUE,
           result |-> "construction-fault", usage |-> ZeroUsage]}

Pending == [kind |-> "pending", success |-> FALSE, raised |-> FALSE,
            result |-> "", usage |-> ZeroUsage]

TaskValue(success, prompt, result, usage) ==
    [success |-> success, prompt |-> prompt, result |-> result, usage |-> usage]

\* The callback without its catch (a mutant).
TaskSettled_withoutCatch(total, prompt, o) ==
    IF o.raised
    THEN [rejected |-> TRUE, totalUsage |-> total,
          value |-> TaskValue(FALSE, prompt, o.result, ZeroUsage)]
    ELSE [rejected |-> FALSE,
          totalUsage |-> IF o.success THEN addUsage(total, o.usage) ELSE total,
          value |-> TaskValue(o.success, prompt, o.result, o.usage)]

\* The callback adding the usage of failed tasks too (a mutant).
TaskSettled_countsEveryUsage(total, prompt, o) ==
    [rejected |-> FALSE, totalUsage |-> addUsage(total, o.usage),
     value |-> TaskValue(o.success, prompt, o.result, o.usage)]

\* The callback of prompts.map from the point where runCodingTask has
\* settled: what its promise does, and the total it leaves.
TaskSettled(total, prompt, o) ==
    IF o.raised
    THEN [rejected |-> FALSE, totalUsage |-> total,
          value |-> TaskValue(FALSE, prompt, o.result, ZeroUsage)]
    ELSE [rejected |-> FALSE,
          totalUsage |-> IF o.success THEN addUsage(total, o.usage) ELSE total,
          value |-> TaskValue(o.success, prompt, o.result, o.usage)]

\* Promise.all: rejected as soon as one promise is, resolved once all are.
PromiseAll(ts) ==
    IF \E i \in DOMAIN ts : ts[i].status = "rejected" THEN "rejected"
    ELSE IF \A i \in DOMAIN ts : ts[i].status = "resolved" THEN "resolved"
    ELSE "pending"

successCount(rs) == Len(SelectSeq(rs, LAMBDA r : r.success))

MultiInit ==
    /\ multiPc = "idle" /\ tasks = <<>> /\ totalUsage = ZeroUsage
    /\ results = <<>> /\ order = <<>>

\* ------------------------------------------------------------------------
\* runPipeline (cli.ts)
\* ------------------------------------------------------------------------
AVAILABLE_MODELS ==
    {"deepseek-v3.2", "deepseek-r1", "deepseek-coder", "minimax-m2.1"}

PIPELINE_STAGES ==
    <<[modelId |-> "deepseek-v3.2", role |-> "analysis", maxSteps |-> 3],
      [modelId |-> "deepseek-v3.2", role |-> "implementation", maxSteps |-> 15],
      [modelId |-> "deepseek-v3.2", role |-> "review", maxSteps |-> 5]>>

\* The prompt of a stage by what its template puts into it: the first
\* takes the request alone, the second the request and the result before
\* it, the third the result before it alone.
promptTemplate(i, input, prev) ==
    CASE i = 1 -> [role |-> PIPELINE_STAGES[i].role, input |-> input, prev |-> ""]
      [] i = 2 -> [role |-> PIPELINE_STAGES[i].role, input |-> input, prev |-> prev]
      [] OTHER -> [role |-> PIPELINE_STAGES[i].role, input |-> "", prev |-> prev]

Pipeline == [pc |-> pipePc, i |-> stageIndex, prompt |-> pipePrompt,
             prevResult |-> prevResult, stageResults |-> stageResults,
             totalUsage |-> pipelineUsage, stagesRun |-> stagesRun,
             report |-> pipeReport]

\* A text by its length in characters: a plan is a few lines, a code
\* listing is longer than what the pipeline displays.
TextLength(text) ==
    CASE text = "" -> 0
      [] text = "plan" -> 120
      [] text = "code" -> 750
      [] OTHER -> 20

\* text.slice(0, n): the first n characters of the text, all of it when it
\* is no longer than n.
Whole(text) == [of |-> text, chars |-> TextLength(text)]
sliceTo(text, n) ==
    [of |-> text, chars |-> IF TextLength(text) < n THEN TextLength(text) ELSE n]

NoReport == [banner |-> "", exitCode |-> 0, printed |-> FALSE,
             text |-> Whole(""), elided |-> FALSE]

\* The final result printed whenever some stage succeeded (a mutant).
FinalReport_afterAnySuccess(p) ==
    LET complete == Len(p.stageResults) > 0
    IN [banner |-> "pipeline-complete", exitCode |-> 0, printed |-> complete,
        text |-> IF complete THEN sliceTo(p.prevResult, DisplayLimit)
                 ELSE Whole(""),
        elided |-> complete /\ TextLength(p.prevResult) > DisplayLimit]

\* Lines 418-442 and main: the completion banner, the final result when
\* every stage left a result, and the return to main, which ends normally.
FinalReport(p) ==
    LET complete == Len(p.stageResults) = Len(PIPELINE_STAGES)
    IN [banner |-> "pipeline-complete", exitCode |-> 0, printed |-> complete,
        text |-> IF complete THEN sliceTo(p.prevResult, DisplayLimit)
                 ELSE Whole(""),
        elided |-> complete /\ TextLength(p.prevResult) > DisplayLimit]

Finish(p) == [p EXCEPT !.pc = "finished", !.report = FinalReport(p)]

\* The for loop from index i to its next await or its end: a stage whose
\* model is not found is passed over.
RECURSIVE StageLoop(_, _)
StageLoop(p, i) ==
    IF i > Len(PIPELINE_STAGES) THEN Finish([p EXCEPT !.i = i])
    ELSE IF PIPELINE_STAGES[i].modelId \notin AVAILABLE_MODELS
         THEN StageLoop(p, i + 1)
    ELSE [p EXCEPT !.pc = "awaiting", !.i = i,
                   !.stagesRun = Append(@,
                       [stage |-> i, input |-> p.prompt, prev |-> p.prevResult,
                        prompt |-> promptTemplate(i, p.prompt, p.prevResult),
                        outcome |-> "pending", result |-> ""])]

Settle(p, o) ==
    [p EXCEPT !.stagesRun[Len(p.stagesRun)].outcome = o.kind,
              !.stagesRun[Len(p.stagesRun)].result = o.result]

\* A stage that did not succeed passed over like one without a model (a
\* mutant).
StageSettled_goesOn(p, o) ==
    IF o.raised \/ ~o.success THEN StageLoop(Settle(p, o), p.i + 1)
    ELSE StageLoop(
             [Settle(p, o) EXCEPT
                 !.prevResult = o.result,
                 !.stageResults = Append(@, [stage |-> p.i, result |-> o.result,
                                             usage |-> o.usage]),
                 !.totalUsage = addUsage(@, o.usage)],
             p.i + 1)

\* The first result threaded to every later stage (a mutant).
StageSettled_keepsFirstResult(p, o) ==
    IF o.raised \/ ~o.success THEN Finish(Settle(p, o))
    ELSE StageLoop(
             [Settle(p, o) EXCEPT
                 !.prevResult = IF @ = "" THEN o.result ELSE @,
                 !.stageResults = Append(@, [stage |-> p.i, result |-> o.result,
                                             usage |-> o.usage]),
                 !.totalUsage = addUsage(@, o.usage)],
             p.i + 1)

\* Lines 361-415 and on: runCodingTask of stage i has settled.
StageSettled(p, o) ==
    IF o.raised \/ ~o.success THEN Finish(Settle(p, o))
    ELSE StageLoop(
             [Settle(p, o) EXCEPT
                 !.prevResult = o.result,
                 !.stageResults = Append(@, [stage |-> p.i, result |-> o.result,
                                             usage |-> o.usage]),
                 !.totalUsage = addUsage(@, o.usage)],
             p.i + 1)

PipeInit ==
    /\ pipePc = "idle" /\ stageIndex = 0 /\ pipePrompt = ""
    /\ prevResult = "" /\ stageResults = <<>>
    /\ pipelineUsage = ZeroUsage /\ stagesRun = <<>>
    /\ pipeReport = NoReport

\* ------------------------------------------------------------------------
\* runCodingTask (agent/coding.ts) and the construction of its agent
\* ------------------------------------------------------------------------
\* llm.ts getDefaultLLM, which the BaseAgent constructor calls: the client
\* made before is returned; without one, and without an API key, it raises.
getDefaultLLM(cached, key) ==
    IF cached THEN [raised |-> FALSE, cached |-> TRUE]
    ELSE IF ~key THEN [raised |-> TRUE, cached |-> FALSE]
    ELSE [raised |-> FALSE, cached |-> TRUE]

ApiKeyFault == "api-key-required"    \* Error('DEEPSEEK_API_KEY ...')

NoHandle == [success |-> FALSE, result |-> "", logs |-> <<>>]

\* The budget-exhausted message taken for a fault (a mutant).
TaskHandle_budgetIsFailure(run, agentLogs) ==
    IF run.pc = "returned" /\ run.out # BudgetMessage
    THEN [success |-> TRUE, result |-> run.out, logs |-> agentLogs]
    ELSE [success |-> FALSE, result |-> run.out, logs |-> agentLogs]

\* Lines 279-293: what runCodingTask resolves with once run() has returned
\* a message or raised a fault.
TaskHandle(run, agentLogs) ==
    IF run.pc = "returned"
    THEN [success |-> TRUE, result |-> run.out, logs |-> agentLogs]
    ELSE [success |-> FALSE, result |-> run.fault, logs |-> agentLogs]

\* How runCodingTask settles when the loop of its agent ends with the step
\* budget used up: run() leaves its loop with currentStep = maxSteps, and
\* the task resolves with what run() returned.
BudgetExhausted ==
    LET run == AfterLoop([Agent EXCEPT !.state = "running",
                                       !.currentStep = maxSteps])
        h == TaskHandle(run, run.a.logs)
    IN [kind |-> IF h.success THEN "success" ELSE "failure",
        success |-> h.success, raised |-> FALSE, result |-> h.result,
        usage |-> [promptTokens |-> 1, completionTokens |-> 1,
                   totalTokens |-> 2]]

TaskInit ==
    /\ apiKey = TRUE /\ defaultLLM = FALSE
    /\ taskPc = "idle" /\ handle = NoHandle

\* ------------------------------------------------------------------------
\* runInteractiveMode (cli.ts): the queue, its input handler and the
\* handlers of its workers' events
\* ------------------------------------------------------------------------
Directories == {"/work", "/other"}

\* addToHistory: the directory moves to the front, at most MAX_HISTORY kept.
addToHistory(history, dir) ==
    LET moved == <<dir>> \o SelectSeq(history, LAMBDA d : d # dir)
    IN IF Len(moved) > MAX_HISTORY THEN SubSeq(moved, 1, Len(moved) - 1)
       ELSE moved

Queue == [tasks |-> qTasks, taskId |-> taskId, totalTokens |-> totalTokens,
          armed |-> armed, exited |-> exited, reports |-> reports,
          cwd |-> cwd, dirHistory |-> dirHistory]

\* prompt() of runInteractiveMode: rl.question arms one callback for the next line.
rePrompt(q) == [q EXCEPT !.armed = @ + 1]

\* One more outcome line printed for task id: the lines of a task are
\* numbered in the order they are printed.
Report(printed, id, kind) ==
    printed \cup {[id |-> id, kind |-> kind,
                   n |-> Cardinality({r \in printed : r.id = id}) + 1]}

\* What a worker posts: the success flag and the total tokens of its usage.
WorkerMessages == {[success |-> TRUE, totalTokens |-> 2],
                   [success |-> TRUE, totalTokens |-> 0],
                   [success |-> FALSE, totalTokens |-> 0]}

\* worker.on('message').
onMessage(q, i, msg) ==
    [q EXCEPT !.tasks[i].ended = TRUE,
              !.tasks[i].status = IF msg.success THEN "completed" ELSE "failed",
              !.tasks[i].tokens = msg.totalTokens,
              !.totalTokens = @ + msg.totalTokens,
              !.reports = Report(@, q.tasks[i].id,
                                 IF msg.success THEN "completed" ELSE "failed")]

\* The error handler failing every running task (a mutant).
onError_failsEveryRunning(q, i) ==
    [q EXCEPT !.tasks = [j \in DOMAIN q.tasks |->
                            IF j = i \/ q.tasks[j].status = "running"
                            THEN [q.tasks[j] EXCEPT !.ended = TRUE,
                                                    !.status = "failed"]
                            ELSE q.tasks[j]],
              !.reports = Report(@, q.tasks[i].id, "failed")]

\* worker.on('error').
onError(q, i) ==
    [q EXCEPT !.tasks[i].ended = TRUE,
              !.tasks[i].status = "failed",
              !.reports = Report(@, q.tasks[i].id, "failed")]

\* worker.on('exit').
onExit(q, i, code) ==
    IF code # 0 /\ q.tasks[i].status = "running"
    THEN [q EXCEPT !.tasks[i].status = "failed",
                   !.reports = Report(@, q.tasks[i].id, "failed")]
    ELSE q

\* startTask: the worker is made and its handlers are attached; when the
\* worker cannot be made the task is failed at once.
startTask(q, i, made) ==
    IF made THEN [q EXCEPT !.tasks[i].worker = "starting"]
    ELSE [q EXCEPT !.tasks[i].status = "failed",
                   !.reports = Report(@, q.tasks[i].id, "failed")]

\* worker.terminate() on every task that has a worker.
terminateAll(q) ==
    [q EXCEPT !.tasks = [j \in DOMAIN q.tasks |->
                            IF q.tasks[j].worker \in {"none", "exited"}
                            THEN q.tasks[j]
                            ELSE [q.tasks[j] EXCEPT !.worker = "terminating"]]]

InputLines == {"", "q", "s", "/hd", "/cd 7", "/cd /other", "/cd /missing",
               "/pwd", "write tests"}

\* The status command leaving no callback armed (a mutant).
handleInput_statusDoesNotArm(q, line, made) ==
    CASE line = "q" -> [terminateAll(q) EXCEPT !.armed = 0, !.exited = TRUE]
      [] line = "s" -> q
      [] line \in {"", "/hd", "/pwd", "/cd 7", "/cd /missing"} -> rePrompt(q)
      [] line = "/cd /other" ->
            rePrompt([q EXCEPT !.cwd = "/other",
                             !.dirHistory = addToHistory(@, "/other")])
      [] OTHER ->
            LET id == q.taskId + 1
                pushed == [q EXCEPT
                    !.taskId = id,
                    !.tasks = Append(@, [id |-> id, prompt |-> line,
                                         status |-> "running", tokens |-> 0,
                                         ended |-> FALSE, cwd |-> q.cwd,
                                         worker |-> "none",
                                         projectPath |-> ""])]
            IN rePrompt(startTask(pushed, Len(pushed.tasks), made))

\* handleInput: one line of input, from the callback it was delivered to.
\* Quit terminates the workers, closes the interface and exits; every other
\* line ends with prompt().
handleInput(q, line, made) ==
    CASE line = "q" -> [terminateAll(q) EXCEPT !.armed = 0, !.exited = TRUE]
      [] line \in {"", "s", "/hd", "/pwd", "/cd 7", "/cd /missing"} -> rePrompt(q)
      [] line = "/cd /other" ->
            rePrompt([q EXCEPT !.cwd = "/other",
                             !.dirHistory = addToHistory(@, "/other")])
      [] OTHER ->
            LET id == q.taskId + 1
                pushed == [q EXCEPT
                    !.taskId = id,
                    !.tasks = Append(@, [id |-> id, prompt |-> line,
                                         status |-> "running", tokens |-> 0,
                                         ended |-> FALSE, cwd |-> q.cwd,
                                         worker |-> "none",
                                         projectPath |-> ""])]
            IN rePrompt(startTask(pushed, Len(pushed.tasks), made))

\* runInteractiveMode up to its first prompt().
QueueInit ==
    /\ qTasks = <<>> /\ taskId = 0 /\ totalTokens = 0
    /\ armed = 1 /\ exited = FALSE /\ reports = {}
    /\ cwd = "/work" /\ dirHistory = addToHistory(<<>>, "/work")
    /\ lines = 0

\* ------------------------------------------------------------------------
\* External calls: the model request (llm.ts), the shell command and the web
\* fetch (tools/bash.ts)
\* ------------------------------------------------------------------------
\* A call that is given no timeout.
NoTimeout == 0

\* callDeepSeekWithTools: fetch with method, headers and body, and no signal.
callDeepSeekWithTools == [kind |-> "model", timeout |-> NoTimeout]

\* BashTool.execute: exec with the timeout of the arguments, or the default
\* when the argument is absent or 0.
BashTool_execute(timeout) ==
    [kind |-> "shell",
     timeout |-> IF timeout = 0 THEN DefaultShellTimeout ELSE timeout]

\* WebFetchTool.execute: fetch with a User-Agent header, and no signal.
WebFetchTool_execute == [kind |-> "fetch", timeout |-> NoTimeout]

\* The timeout argument of a bash call: absent, or five seconds.
ShellTimeouts == {0, 5000}

ExternalCalls ==
    {callDeepSeekWithTools, WebFetchTool_execute}
        \cup {BashTool_execute(t) : t \in ShellTimeouts}

\* What the caller gets when the collaborator answers: the model's reply or
\* the fault of a response that is not ok; a tool result, failed or not.
Answered(c, ok) ==
    CASE c.kind = "model" -> IF ok THEN "returned" ELSE "raised"
      [] OTHER -> IF ok THEN "tool-success" ELSE "tool-failure"

CallInit == externalCalls = <<>>

\* ------------------------------------------------------------------------
\* server.ts: UserStore and the REST handlers
\* ------------------------------------------------------------------------
Names == {"Ann", "Bob"}
Emails == {"ann@example.com", "bob@example.com"}

\* new UserStore(): an empty Map, kept here in its insertion order, and the
\* id counter.
NewUserStore == [users |-> <<>>, idCounter |-> 1]

\* Map.set: the value of a key already present is replaced where it stands,
\* a new key goes to the end.
mapSet(users, user) ==
    IF \E k \in 1..Len(users) : users[k].id = user.id
    THEN [k \in 1..Len(users) |->
             IF users[k].id = user.id THEN user ELSE users[k]]
    ELSE Append(users, user)

\* Map.delete: whether the key was present, and the map without it.
mapDelete(users, id) ==
    [deleted |-> \E k \in 1..Len(users) : users[k].id = id,
     users |-> SelectSeq(users, LAMBDA u : u.id # id)]

getAllUsers(s) == s.users

getUserCount(s) == Len(s.users)

\* getUserById: the stored user, or undefined (here the empty sequence).
getUserById(s, id) == SelectSeq(s.users, LAMBDA u : u.id = id)

\* createUser taking the number of stored users plus one as the id (a mutant).
createUser_idFromSize(s, name, email) ==
    LET user == [id |-> Len(s.users) + 1, name |-> name, email |-> email]
    IN [store |-> [s EXCEPT !.users = mapSet(@, user)], user |-> user]

\* createUser: the id is the counter, which is then raised by one.
createUser(s, name, email) ==
    LET user == [id |-> s.idCounter, name |-> name, email |-> email]
    IN [store |-> [users |-> mapSet(s.users, user),
                   idCounter |-> s.idCounter + 1],
        user |-> user]

deleteUser(s, id) ==
    LET d == mapDelete(s.users, id)
    IN [store |-> [s EXCEPT !.users = d.users], deleted |-> d.deleted]

\* What a POST body can be to createUserSchema: each field absent, of a
\* wrong shape, or acceptable.
NameFields == {"missing", "empty", "too-long"} \cup Names
EmailFields == {"missing", "invalid", "too-long"} \cup Emails
Bodies == [name : NameFields, email : EmailFields]

\* createUserSchema.safeParse(body).success
safeParse(body) == body.name \in Names /\ body.email \in Emails

\* app.post('/users') creating the user before it validates (a mutant).
postUsers_createsFirst(s, body) ==
    LET c == createUser(s, body.name, body.email)
    IN [store |-> c.store, made |-> <<c.user>>,
        status |-> IF safeParse(body) THEN 201 ELSE 400]

\* app.post('/users')
postUsers(s, body) ==
    IF ~safeParse(body)
    THEN [store |-> s, made |-> <<>>, status |-> 400]
    ELSE LET c == createUser(s, body.name, body.email)
         IN [store |-> c.store, made |-> <<c.user>>, status |-> 201]

\* app.delete('/users/:id')
deleteUsers(s, id) ==
    IF getUserById(s, id) = <<>>
    THEN [store |-> s, deleted |-> FALSE, status |-> 404]
    ELSE LET d == deleteUser(s, id)
         IN [store |-> d.store, deleted |-> d.deleted,
             status |-> IF d.deleted THEN 200 ELSE 500]

\* app.get('/users')
getUsers(s) == [status |-> 200, data |-> getAllUsers(s),
                count |-> Len(getAllUsers(s))]

\* The store of the application: two users are created when the module loads.
SeededStore ==
    LET one == createUser(NewUserStore, "Ann", "ann@example.com")
        two == createUser(one.store, "Bob", "bob@example.com")
    IN [store |-> two.store, created |-> <<one.user, two.user>>]

StoreInit ==
    /\ userStore = NewUserStore /\ created = <<>> /\ removed = 0
    /\ responses = <<>>

\* ------------------------------------------------------------------------
\* models.ts, llm.ts, agent/coding.ts: the selected model of a CodingAgent
\* ------------------------------------------------------------------------
DefaultModelId == "deepseek-v3.2"   \* the initial currentModelId

\* ModelInfo.model of a model id: the name requests are sent with.
ModelName(id) ==
    CASE id = "deepseek-v3.2" -> "deepseek-chat"
      [] id = "deepseek-r1" -> "deepseek-reasoner"
      [] id = "deepseek-coder" -> "deepseek-coder"
      [] id = "minimax-m2.1" -> "MiniMax-M2.1"
      [] OTHER -> ""

\* The model ids of a configuration: omitted (""), listed ones, and one that
\* is not listed.
ConfiguredModelIds ==
    {"", "deepseek-v3.2", "deepseek-r1", "deepseek-coder", "no-such-model"}

\* The module state of models.ts and llm.ts.
Modules == [currentModelId |-> currentModelId, defaultLLM |-> defaultLLMModel]

getCurrentModel(m) ==
    IF m.currentModelId \in AVAILABLE_MODELS THEN m.currentModelId
    ELSE DefaultModelId

setCurrentModel(m, modelId) ==
    IF modelId \in AVAILABLE_MODELS
    THEN [found |-> TRUE, m |-> [m EXCEPT !.currentModelId = modelId]]
    ELSE [found |-> FALSE, m |-> m]

\* getDefaultLLM with an API key set: the cached client, made on first use
\* with the model current at that time.
cachedDefaultLLM(m) ==
    IF m.defaultLLM # "" THEN m
    ELSE [m EXCEPT !.defaultLLM = ModelName(getCurrentModel(m))]

\* new CodingAgent({ modelId }) with an API key set: BaseAgent's constructor
\* takes the default client, selectModel replaces it when the id is listed,
\* and the selected model is whatever is current afterwards.
CodingAgent(m, modelId) ==
    LET base == cachedDefaultLLM(m)
        sel == IF modelId # "" THEN setCurrentModel(base, modelId)
               ELSE [found |-> FALSE, m |-> base]
    IN [m |-> sel.m,
        agent |-> [modelId |-> modelId,
                   selectedModel |-> getCurrentModel(sel.m),
                   llm |-> IF sel.found THEN ModelName(modelId)
                           ELSE base.defaultLLM]]

ModelInit ==
    /\ currentModelId = DefaultModelId /\ defaultLLMModel = ""
    /\ agents = <<>>

\* runAgentStream (index.ts): the generator before its first next().
NoStreamResult == [kind |-> "none", value |-> ""]

StreamInit ==
    /\ streamPc = "created" /\ lastYieldedIndex = 0 /\ yielded = <<>>
    /\ streamResult = NoStreamResult

\* ------------------------------------------------------------------------
\* Construction
\* ------------------------------------------------------------------------
NewRun == [pc |-> "new", accepted |-> FALSE, steps |-> 0, last |-> "none",
           stepMessage |-> "", out |-> "", fault |-> ""]

\* The agent as its constructor leaves it, with maxSteps as configured.
RestInit ==
    /\ ToolInit /\ MultiInit /\ PipeInit /\ TaskInit /\ QueueInit
    /\ CallInit /\ StoreInit /\ ModelInit /\ StreamInit

AgentInit(configured) ==
    /\ state = "idle"
    /\ currentStep = 0
    /\ maxSteps = configured
    /\ memory = createMemory(AgentMemoryMax)
    /\ logs = <<>>
    /\ onLog = "unset"
    /\ runs = [r \in 1..MaxRuns |-> NewRun]

\* ------------------------------------------------------------------------
\* The memory on its own: appends of turns of any role to a bounded memory
\* ------------------------------------------------------------------------
InitMem ==
    /\ \E mx \in 0..MaxMem : mem = createMemory(mx)
    /\ appended = <<>>
    /\ AgentInit(DefaultMaxSteps)
    /\ RestInit

MemAppend(role, content) ==
    /\ Len(appended) < MaxAppends
    /\ LET message == createMessage(role, content, <<>>, "")
       IN /\ mem' = addToMemory(mem, message)
          /\ appended' = Append(appended, message)
    /\ UNCHANGED agentVars
    /\ UNCHANGED restVars

NextMem == \E role \in Role, content \in {"a", "b"} : MemAppend(role, content)

SpecMem == InitMem /\ [][NextMem]_vars


\* ------------------------------------------------------------------------
\* The step loop: calls of run() on one agent, and the steps settling
\* ------------------------------------------------------------------------
\* TerminateTool.execute: the result text (absent when the model gave none,
\* the value "") and the system signal.
TerminateToolExecute(result, success) ==
    [output |-> result,
     system |-> IF success THEN "TASK_COMPLETED" ELSE "TASK_FAILED"]

\* What one step() does before it settles: a fault of the model request
\* appends nothing; a plain answer appends the assistant turn; an answer with
\* K tool calls appends the assistant turn and then one tool-result turn per
\* call, in the order of the calls, and is terminal, with the tool's output
\* as its message, when the last tool's system signal says completed or
\* failed.
Contents == {"a"}
StepOutcomes ==
    {[kind |-> "fault", content |-> "<null>", calls |-> 0, raised |-> TRUE,
      shouldFinish |-> FALSE, message |-> ""]}
    \cup {[kind |-> "tool", content |-> "<null>", calls |-> k,
           raised |-> FALSE, shouldFinish |-> FALSE, message |-> ""] :
             k \in 1..MaxToolCalls}
    \cup {[kind |-> "text", content |-> c, calls |-> 0, raised |-> FALSE,
           shouldFinish |-> FALSE, message |-> ""] : c \in Contents}
    \cup {[kind |-> "terminate", content |-> "<null>", calls |-> k,
           raised |-> FALSE, shouldFinish |-> TRUE,
           message |-> TerminateToolExecute(m, ok).output] :
             m \in {"", "final-answer"}, ok \in BOOLEAN, k \in 1..MaxToolCalls}

\* The tool calls the turns of a memory carry, counted; the model gives
\* every call an id of its own.
RECURSIVE ToolCallCount(_)
ToolCallCount(messages) ==
    IF messages = <<>> THEN 0
    ELSE Len(Head(messages).toolCalls) + ToolCallCount(Tail(messages))

CallIds(base, k) == [j \in 1..k |-> "call-" \o ToString(base + j)]

\* One tool-result turn per call, from call j on, in the order of the calls.
RECURSIVE AppendToolResults(_, _, _)
AppendToolResults(a, ids, j) ==
    IF j > Len(ids) THEN a
    ELSE AppendToolResults(updateMemory(a, toolMessage("result", ids[j])),
                           ids, j + 1)

StepEffect(a, o) ==
    IF o.kind = "fault" THEN a
    ELSE LET ids == CallIds(ToolCallCount(a.memory.messages), o.calls)
         IN AppendToolResults(
                updateMemory(a, assistantMessage(o.content, ids)), ids, 1)

Install(res) ==
    /\ state' = res.a.state
    /\ currentStep' = res.a.currentStep
    /\ memory' = res.a.memory
    /\ logs' = res.a.logs

\* A caller calls run(): the code runs up to the first `await this.step()`,
\* or to the fault it raises.
RunCalled(r) ==
    /\ runs[r].pc = "new"
    /\ \A q \in 1..(r - 1) : runs[q].pc # "new"
    /\ LET res == RunEntry(Agent, "request")
       IN /\ Install(res)
          /\ runs' = [runs EXCEPT ![r] =
                        [@ EXCEPT !.pc = res.pc,
                                  !.accepted = (res.fault # ReentrancyFault),
                                  !.steps = IF res.pc = "await" THEN 1 ELSE 0,
                                  !.out = res.out,
                                  !.fault = res.fault]]
    /\ UNCHANGED <<maxSteps, onLog, memVars>>

Run(r) == RunCalled(r) /\ UNCHANGED restVars

\* The step a call of run() awaits settles with outcome o, and run() goes on
\* to its next suspension, its return or its fault.
StepReturn(r, o) ==
    /\ runs[r].pc = "await"
    /\ LET res == StepSettled(StepEffect(Agent, o), o)
       IN /\ Install(res)
          /\ runs' = [runs EXCEPT ![r] =
                        [@ EXCEPT !.pc = res.pc,
                                  !.steps = IF res.pc = "await" THEN @ + 1 ELSE @,
                                  !.last = IF o.raised THEN "fault"
                                           ELSE IF o.shouldFinish THEN "finish"
                                           ELSE "continue",
                                  !.stepMessage = o.message,
                                  !.out = res.out,
                                  !.fault = res.fault]]
    /\ UNCHANGED <<maxSteps, onLog, memVars>>
    /\ UNCHANGED restVars

\* clearMemory(), callable at any time.
ClearMemory ==
    /\ memory' = createMemory(AgentMemoryMax)
    /\ currentStep' = 0
    /\ state' = "idle"
    /\ logs' = <<>>
    /\ UNCHANGED <<maxSteps, onLog, runs, memVars>>
    /\ UNCHANGED restVars

\* setLogHandler(handler), callable at any time.
SetLogHandler(h) ==
    /\ h # onLog
    /\ onLog' = h
    /\ UNCHANGED <<state, currentStep, maxSteps, memory, logs, runs, memVars>>
    /\ UNCHANGED restVars

Init ==
    /\ mem = createMemory(0)
    /\ appended = <<>>
    /\ \E configured \in 1..MaxStepsBound : AgentInit(configured)
    /\ RestInit

\* The loop driven by calls of run() alone, with no log handler installed.
Next ==
    \/ \E r \in 1..MaxRuns : Run(r)
    \/ \E r \in 1..MaxRuns, o \in StepOutcomes : StepReturn(r, o)

Spec == Init /\ [][Next]_vars

\* The same with clearMemory() called between any two pieces of run().
NextReset ==
    \/ \E r \in 1..MaxRuns : Run(r)
    \/ \E r \in 1..MaxRuns, o \in StepOutcomes : StepReturn(r, o)
    \/ ClearMemory

SpecReset == Init /\ [][NextReset]_vars

\* The loop with setLogHandler(handler) called between any two pieces of
\* run(): the handler is the caller's code and may raise.
NextHandler ==
    \/ \E r \in 1..MaxRuns : Run(r)
    \/ \E r \in 1..MaxRuns, o \in StepOutcomes : StepReturn(r, o)
    \/ \E h \in Handlers \ {"unset"} : SetLogHandler(h)

SpecHandler == Init /\ [][NextHandler]_vars

\* ------------------------------------------------------------------------
\* Conversation specification: the turns a run appends, one append at a
\* time, to a memory whose bound is small enough for eviction to happen
\* ------------------------------------------------------------------------
\* The last assistant turn appended so far (0 when there is none), and the
\* number of its tool calls that have no tool-result turn yet.
LastAssistant(turns) ==
    LET at == {i \in 1..Len(turns) : turns[i].role = "assistant"}
    IN IF at = {} THEN 0 ELSE CHOOSE i \in at : \A j \in at : j <= i

Unanswered(turns) ==
    LET i == LastAssistant(turns)
        tail == IF i = 0 THEN <<>> ELSE SubSeq(turns, i + 1, Len(turns))
        answered == Len(SelectSeq(tail, LAMBDA m : m.role = "tool"))
    IN IF i = 0 THEN 0 ELSE Len(turns[i].toolCalls) - answered

Requested(turns) == \E i \in 1..Len(turns) : turns[i].role = "user"

Corrected(turns) ==
    /\ turns # <<>>
    /\ turns[Len(turns)] = systemMessage("change-strategy")

InitConv ==
    /\ \E mx \in 1..MaxMem : mem = createMemory(mx)
    /\ appended = <<>>
    /\ AgentInit(DefaultMaxSteps)
    /\ RestInit

ConvAppend(message) ==
    /\ Len(appended) < MaxTurns
    /\ mem' = addToMemory(mem, message)
    /\ appended' = Append(appended, message)
    /\ UNCHANGED agentVars
    /\ UNCHANGED restVars

\* run, line 195: the system prompt.
ConvSystemPrompt ==
    appended = <<>> /\ ConvAppend(systemMessage("system-prompt"))

\* run, line 198: the request.
ConvRequest ==
    /\ appended # <<>> /\ ~Requested(appended)
    /\ ConvAppend(userMessage("request"))

\* run, lines 206-208: the corrective turn of a step that finds the
\* repetition condition.
ConvStuck ==
    /\ Requested(appended) /\ Unanswered(appended) = 0
    /\ ~Corrected(appended)
    /\ isStuck([Agent EXCEPT !.memory = mem])
    /\ Len(appended) < MaxTurns
    /\ mem' = handleStuck([Agent EXCEPT !.memory = mem]).a.memory
    /\ appended' = Append(appended, systemMessage("change-strategy"))
    /\ UNCHANGED agentVars
    /\ UNCHANGED restVars

\* step: the assistant turn, with k tool calls.
ConvAssistant(content, k) ==
    /\ Requested(appended) /\ Unanswered(appended) = 0
    /\ isStuck([Agent EXCEPT !.memory = mem]) => Corrected(appended)
    /\ ConvAppend(assistantMessage(
           content, CallIds(ToolCallCount(appended), k)))

\* step: the tool-result turn of the first call not answered yet.
ConvToolResult ==
    /\ Unanswered(appended) > 0
    /\ LET calls == appended[LastAssistant(appended)].toolCalls
       IN ConvAppend(toolMessage(
              "result", calls[Len(calls) - Unanswered(appended) + 1]))

NextConv ==
    \/ ConvSystemPrompt
    \/ ConvRequest
    \/ ConvStuck
    \/ \E k \in 0..MaxToolCalls :
          ConvAssistant(IF k = 0 THEN "a" ELSE "<null>", k)
    \/ ConvToolResult

SpecConv == InitConv /\ [][NextConv]_vars

\* ------------------------------------------------------------------------
\* Tool specification: tools are registered and calls are resolved
\* ------------------------------------------------------------------------
ToolNames == {"read_file", "bash"}
CallNames == ToolNames \cup {"", "no_such_tool"}

Add(name, kind) ==
    /\ tools' = add(tools, name, kind)
    /\ lastCall' = NoCall
    /\ UNCHANGED <<executed, memVars, agentVars, multiVars, pipeVars, laterVars>>

Execute(name, args) ==
    /\ executed < MaxExecutions
    /\ LET r == execute(tools, name, args)
           registered == name \in getNames(tools)
       IN /\ tools' = r.tools
          /\ lastCall' =
                [name |-> name, args |-> args, registered |-> registered,
                 toolRaised |-> registered
                                /\ ToolExecute(tools[name], args).raised,
                 result |-> r.result, raised |-> r.raised,
                 again |-> lastCall.name = name /\ lastCall.args = args]
    /\ executed' = executed + 1
    /\ UNCHANGED <<memVars, agentVars, multiVars, pipeVars, laterVars>>

InitTools ==
    /\ mem = createMemory(0) /\ appended = <<>>
    /\ AgentInit(DefaultMaxSteps)
    /\ RestInit

NextTools ==
    \/ \E name \in ToolNames, kind \in ToolKinds : Add(name, kind)
    \/ \E name \in CallNames, args \in ArgMaps : Execute(name, args)

SpecTools == InitTools /\ [][NextTools]_vars

\* ------------------------------------------------------------------------
\* Multi-task specification: runMultiTasks and the tasks it starts
\* ------------------------------------------------------------------------
Prompts(n) == [i \in 1..n |-> "task-" \o ToString(i)]

\* Lines 706-746: every callback runs up to its await of runCodingTask.
RunMultiTasks(n) ==
    /\ multiPc = "idle"
    /\ multiPc' = "waiting"
    /\ tasks' = [i \in 1..n |->
                    [status |-> "running", prompt |-> Prompts(n)[i],
                     outcome |-> Pending,
                     value |-> TaskValue(FALSE, "", "", ZeroUsage)]]
    /\ totalUsage' = ZeroUsage
    /\ UNCHANGED <<results, order, memVars, agentVars, toolVars, pipeVars,
                   laterVars>>

\* Lines 747-771: runCodingTask of task i has settled and the callback runs
\* to its end.
TaskSettles(i, o) ==
    /\ i \in DOMAIN tasks
    /\ tasks[i].status = "running"
    /\ LET t == TaskSettled(totalUsage, tasks[i].prompt, o)
       IN /\ tasks' = [tasks EXCEPT ![i] =
                          [status |-> IF t.rejected THEN "rejected"
                                      ELSE "resolved",
                           prompt |-> @.prompt, outcome |-> o,
                           value |-> t.value]]
          /\ totalUsage' = t.totalUsage
    /\ order' = Append(order, i)
    /\ UNCHANGED <<multiPc, results, memVars, agentVars, toolVars, pipeVars,
                   laterVars>>

\* Lines 745, 775-797: the await of Promise.all ends.
WaitCompletes ==
    /\ multiPc = "waiting"
    /\ PromiseAll(tasks) # "pending"
    /\ IF PromiseAll(tasks) = "resolved"
       THEN /\ multiPc' = "done"
            /\ results' = [i \in DOMAIN tasks |-> tasks[i].value]
       ELSE /\ multiPc' = "failed"
            /\ UNCHANGED results
    /\ UNCHANGED <<tasks, totalUsage, order, memVars, agentVars, toolVars,
                   pipeVars, laterVars>>

InitMulti ==
    /\ mem = createMemory(0) /\ appended = <<>>
    /\ AgentInit(DefaultMaxSteps)
    /\ RestInit

NextMulti ==
    \/ \E n \in 0..MaxTasks : RunMultiTasks(n)
    \/ \E i \in 1..MaxTasks, o \in CodingTaskOutcomes : TaskSettles(i, o)
    \/ WaitCompletes

SpecMulti == InitMulti /\ [][NextMulti]_vars

\* ------------------------------------------------------------------------
\* Pipeline specification: runPipeline and the stages it starts
\* ------------------------------------------------------------------------
InstallPipeline(p) ==
    /\ pipePc' = p.pc /\ stageIndex' = p.i /\ pipePrompt' = p.prompt
    /\ prevResult' = p.prevResult /\ stageResults' = p.stageResults
    /\ pipelineUsage' = p.totalUsage /\ stagesRun' = p.stagesRun
    /\ pipeReport' = p.report

\* Lines 324-361: the call, up to the await of the first stage.
RunPipeline(prompt) ==
    /\ pipePc = "idle"
    /\ InstallPipeline(StageLoop([Pipeline EXCEPT !.prompt = prompt], 1))
    /\ UNCHANGED <<memVars, agentVars, toolVars, multiVars, laterVars>>

\* Lines 361-442: the stage awaited settles; the loop goes on or ends.
StageSettles(o) ==
    /\ pipePc = "awaiting"
    /\ InstallPipeline(StageSettled(Pipeline, o))
    /\ UNCHANGED <<memVars, agentVars, toolVars, multiVars, laterVars>>

InitPipeline ==
    /\ mem = createMemory(0) /\ appended = <<>>
    /\ AgentInit(DefaultMaxSteps)
    /\ RestInit

NextPipeline ==
    \/ \E prompt \in {"add-tests", "fix-bug"} : RunPipeline(prompt)
    \/ \E o \in CodingTaskOutcomes \cup {BudgetExhausted} : StageSettles(o)

SpecPipeline == InitPipeline /\ [][NextPipeline]_vars

\* ------------------------------------------------------------------------
\* Task specification: one call of runCodingTask, from the construction of
\* its agent to the settling of its promise
\* ------------------------------------------------------------------------
\* Lines 258-278: the agent is constructed, the handler of the options is
\* installed and run() is called; a fault of the constructor leaves the
\* function before its try.
RunCodingTask ==
    /\ taskPc = "idle"
    /\ LET llm == getDefaultLLM(defaultLLM, apiKey)
       IN /\ defaultLLM' = llm.cached
          /\ IF llm.raised
             THEN /\ taskPc' = "rejected"
                  /\ handle' = [NoHandle EXCEPT !.result = ApiKeyFault]
                  /\ UNCHANGED agentVars
             ELSE /\ taskPc' = "running"
                  /\ RunCalled(1)
                  /\ UNCHANGED handle
    /\ UNCHANGED <<apiKey, memVars, toolVars, multiVars, pipeVars, queueVars,
                   callVars, storeVars, modelVars, streamVars>>

\* Lines 279-293: run() has settled and runCodingTask returns.
TaskReturns ==
    /\ taskPc = "running"
    /\ runs[1].pc \in {"returned", "raised"}
    /\ taskPc' = "resolved"
    /\ handle' = TaskHandle(runs[1], logs)
    /\ UNCHANGED <<apiKey, defaultLLM, memVars, agentVars, toolVars,
                   multiVars, pipeVars, queueVars,
                   callVars, storeVars, modelVars, streamVars>>

\* The configuration and the environment of the call: the step budget, the
\* log handler of the options, and whether an API key is set.
InitTask ==
    /\ mem = createMemory(0) /\ appended = <<>>
    /\ \E configured \in 1..MaxStepsBound, h \in Handlers :
          /\ state = "idle" /\ currentStep = 0 /\ maxSteps = configured
          /\ memory = createMemory(AgentMemoryMax) /\ logs = <<>>
          /\ onLog = h
          /\ runs = [r \in 1..MaxRuns |-> NewRun]
    /\ ToolInit /\ MultiInit /\ PipeInit /\ QueueInit /\ CallInit /\ StoreInit
    /\ ModelInit /\ StreamInit
    /\ apiKey \in BOOLEAN /\ defaultLLM = FALSE
    /\ taskPc = "idle" /\ handle = NoHandle

\* The step the task's run awaits settles.
TaskStep(o) == taskPc = "running" /\ StepReturn(1, o)

NextTask ==
    \/ RunCodingTask
    \/ \E o \in StepOutcomes : TaskStep(o)
    \/ TaskReturns

SpecTask == InitTask /\ [][NextTask]_vars


\* ------------------------------------------------------------------------
\* runInteractiveMode: input lines and worker events
\* ------------------------------------------------------------------------
InstallQueue(q) ==
    /\ qTasks' = q.tasks /\ taskId' = q.taskId
    /\ totalTokens' = q.totalTokens /\ armed' = q.armed
    /\ exited' = q.exited /\ reports' = q.reports
    /\ cwd' = q.cwd /\ dirHistory' = q.dirHistory

outsideQueue == <<memVars, agentVars, toolVars, multiVars, pipeVars, taskVars,
                  callVars, storeVars, modelVars, streamVars>>

\* readline delivers a line to the armed callback, which is handleInput.
InputLine(line, made) ==
    /\ ~exited /\ armed > 0 /\ lines < MaxLines
    /\ (line = "write tests") => Len(qTasks) < MaxQueued
    /\ InstallQueue(handleInput([Queue EXCEPT !.armed = @ - 1], line, made))
    /\ lines' = lines + 1
    /\ UNCHANGED outsideQueue

\* The thread of task i starts: worker.ts calls runCodingTask with the prompt
\* and the model id of its workerData, and the CodingAgent takes
\* process.cwd(), which is the process's, as its project path.
WorkerStarts(i) ==
    /\ ~exited /\ qTasks[i].worker = "starting"
    /\ InstallQueue([Queue EXCEPT !.tasks[i].worker = "working",
                                  !.tasks[i].projectPath = cwd])
    /\ UNCHANGED <<lines, outsideQueue>>

\* The worker of task i posts its result.
WorkerMessage(i, msg) ==
    /\ ~exited /\ qTasks[i].worker = "working"
    /\ InstallQueue([onMessage(Queue, i, msg) EXCEPT !.tasks[i].worker = "posted"])
    /\ UNCHANGED <<lines, outsideQueue>>

\* The thread of task i raises an exception nothing catches: while it
\* starts, while the task runs, or after the result was posted.
WorkerError(i) ==
    /\ ~exited /\ qTasks[i].worker \in {"starting", "working", "posted"}
    /\ InstallQueue([onError(Queue, i) EXCEPT !.tasks[i].worker = "crashed"])
    /\ UNCHANGED <<lines, outsideQueue>>

\* The worker of task i ends: with code 0 after it has posted, with code 1
\* after an error, with either code when its code ends the thread itself.
WorkerExit(i, code) ==
    /\ ~exited /\ qTasks[i].worker \in {"starting", "working", "posted", "crashed"}
    /\ qTasks[i].worker = "posted" => code = 0
    /\ qTasks[i].worker = "crashed" => code = 1
    /\ InstallQueue([onExit(Queue, i, code) EXCEPT !.tasks[i].worker = "exited"])
    /\ UNCHANGED <<lines, outsideQueue>>

InitQueue ==
    /\ mem = createMemory(0) /\ appended = <<>>
    /\ AgentInit(DefaultMaxSteps)
    /\ RestInit

NextQueue ==
    \/ \E line \in InputLines, made \in BOOLEAN : InputLine(line, made)
    \/ \E i \in 1..Len(qTasks) : WorkerStarts(i)
    \/ \E i \in 1..Len(qTasks), msg \in WorkerMessages : WorkerMessage(i, msg)
    \/ \E i \in 1..Len(qTasks) : WorkerError(i)
    \/ \E i \in 1..Len(qTasks), code \in {0, 1} : WorkerExit(i, code)

SpecQueue == InitQueue /\ [][NextQueue]_vars

\* ------------------------------------------------------------------------
\* External calls: issue, answer, expiry
\* ------------------------------------------------------------------------
outsideCalls == <<memVars, agentVars, toolVars, multiVars, pipeVars, taskVars,
                  queueVars, storeVars, modelVars, streamVars>>

\* No call of the loop is waiting for its collaborator.
NoneOutstanding ==
    \A k \in 1..Len(externalCalls) : externalCalls[k].status # "waiting"

\* The loop issues a call; it awaits each before it issues the next.
Issue(c) ==
    /\ Len(externalCalls) < MaxCalls /\ NoneOutstanding
    /\ externalCalls' = Append(externalCalls,
                               [kind |-> c.kind, timeout |-> c.timeout,
                                status |-> "waiting"])
    /\ UNCHANGED outsideCalls

\* The collaborator answers the call that is waiting.
Answers(k, ok) ==
    /\ externalCalls[k].status = "waiting"
    /\ externalCalls' = [externalCalls EXCEPT
                            ![k].status = Answered(externalCalls[k], ok)]
    /\ UNCHANGED outsideCalls

\* The timeout of the waiting call expires: exec kills the command and
\* rejects, and the tool answers with a failure.
Expires(k) ==
    /\ externalCalls[k].status = "waiting"
    /\ externalCalls[k].timeout # NoTimeout
    /\ externalCalls' = [externalCalls EXCEPT ![k].status = "tool-failure"]
    /\ UNCHANGED outsideCalls

InitCalls ==
    /\ mem = createMemory(0) /\ appended = <<>>
    /\ AgentInit(DefaultMaxSteps)
    /\ RestInit

NextCalls ==
    \/ \E c \in ExternalCalls : Issue(c)
    \/ \E k \in 1..Len(externalCalls), ok \in BOOLEAN : Answers(k, ok)
    \/ \E k \in 1..Len(externalCalls) : Expires(k)

SpecCalls == InitCalls /\ [][NextCalls]_vars

\* ------------------------------------------------------------------------
\* UserStore: calls on one store; the REST application: requests
\* ------------------------------------------------------------------------
outsideStore == <<memVars, agentVars, toolVars, multiVars, pipeVars, taskVars,
                  queueVars, callVars, modelVars, streamVars>>

UserIds == 1..(MaxUsers + 1)

CreateUser(name, email) ==
    /\ Len(created) < MaxUsers
    /\ LET c == createUser(userStore, name, email)
       IN /\ userStore' = c.store
          /\ created' = Append(created, c.user)
    /\ UNCHANGED <<removed, responses, outsideStore>>

DeleteUser(id) ==
    /\ LET d == deleteUser(userStore, id)
       IN /\ userStore' = d.store
          /\ removed' = IF d.deleted THEN removed + 1 ELSE removed
    /\ UNCHANGED <<created, responses, outsideStore>>

InitStore ==
    /\ mem = createMemory(0) /\ appended = <<>>
    /\ AgentInit(DefaultMaxSteps)
    /\ RestInit

NextStore ==
    \/ \E name \in Names, email \in Emails : CreateUser(name, email)
    \/ \E id \in UserIds : DeleteUser(id)

SpecStore == InitStore /\ [][NextStore]_vars

\* One request is served from its arrival to its answer: the handlers await
\* nothing.
PostUsers(body) ==
    /\ Len(responses) < MaxRequests
    /\ LET r == postUsers(userStore, body)
       IN /\ userStore' = r.store
          /\ created' = created \o r.made
          /\ responses' = Append(responses,
                 [method |-> "POST", status |-> r.status,
                  rejected |-> ~safeParse(body)])
    /\ UNCHANGED <<removed, outsideStore>>

DeleteUsers(id) ==
    /\ Len(responses) < MaxRequests
    /\ LET r == deleteUsers(userStore, id)
       IN /\ userStore' = r.store
          /\ removed' = IF r.deleted THEN removed + 1 ELSE removed
          /\ responses' = Append(responses,
                 [method |-> "DELETE", status |-> r.status,
                  rejected |-> getUserById(userStore, id) = <<>>])
    /\ UNCHANGED <<created, outsideStore>>

GetUsers ==
    /\ Len(responses) < MaxRequests
    /\ responses' = Append(responses,
           [method |-> "GET", status |-> getUsers(userStore).status,
            rejected |-> FALSE])
    /\ UNCHANGED <<userStore, created, removed, outsideStore>>

InitServer ==
    /\ mem = createMemory(0) /\ appended = <<>>
    /\ AgentInit(DefaultMaxSteps)
    /\ ToolInit /\ MultiInit /\ PipeInit /\ TaskInit /\ QueueInit /\ CallInit
    /\ ModelInit /\ StreamInit
    /\ userStore = SeededStore.store /\ created = SeededStore.created
    /\ removed = 0 /\ responses = <<>>

NextServer ==
    \/ \E body \in Bodies : PostUsers(body)
    \/ \E id \in UserIds : DeleteUsers(id)
    \/ GetUsers

SpecServer == InitServer /\ [][NextServer]_vars

\* ------------------------------------------------------------------------
\* CodingAgents constructed in one process
\* ------------------------------------------------------------------------
outsideModels == <<memVars, agentVars, toolVars, multiVars, pipeVars, taskVars,
                   queueVars, callVars, storeVars, streamVars>>

NewCodingAgent(modelId) ==
    /\ apiKey /\ Len(agents) < MaxAgents
    /\ LET c == CodingAgent(Modules, modelId)
       IN /\ currentModelId' = c.m.currentModelId
          /\ defaultLLMModel' = c.m.defaultLLM
          /\ agents' = Append(agents, c.agent)
    /\ UNCHANGED outsideModels

InitModels ==
    /\ mem = createMemory(0) /\ appended = <<>>
    /\ AgentInit(DefaultMaxSteps)
    /\ RestInit

NextModels == \E modelId \in ConfiguredModelIds : NewCodingAgent(modelId)

SpecModels == InitModels /\ [][NextModels]_vars

\* ------------------------------------------------------------------------
\* runAgentStream: the generator, the run it started, and its consumer
\* ------------------------------------------------------------------------
outsideStream == <<memVars, toolVars, multiVars, pipeVars, taskVars, queueVars,
                   callVars, storeVars, modelVars>>

\* The test of the outer while loop.
StreamGoesOn(running, index, events) == running \/ index < Len(events)

\* The first next(): run() is called and runs to its first suspension, and
\* the generator reaches its loop.
StreamStart ==
    /\ streamPc = "created"
    /\ RunCalled(1)
    /\ streamPc' = IF StreamGoesOn(state' = "running", lastYieldedIndex, logs')
                   THEN "loop" ELSE "awaitRun"
    /\ UNCHANGED <<lastYieldedIndex, yielded, streamResult>>
    /\ UNCHANGED <<toolVars, multiVars, pipeVars, taskVars, queueVars,
                   callVars, storeVars, modelVars>>

\* The inner loop yields the next event and the consumer asks for more.
StreamYield ==
    /\ streamPc = "loop" /\ lastYieldedIndex < Len(logs)
    /\ yielded' = Append(yielded, logs[lastYieldedIndex + 1])
    /\ lastYieldedIndex' = lastYieldedIndex + 1
    /\ UNCHANGED <<streamPc, streamResult, agentVars, outsideStream>>

\* Nothing is left to yield: the generator waits for its timer.
StreamSleep ==
    /\ streamPc = "loop" /\ lastYieldedIndex = Len(logs)
    /\ streamPc' = "sleeping"
    /\ UNCHANGED <<lastYieldedIndex, yielded, streamResult, agentVars,
                   outsideStream>>

\* The timer fires and the outer test is made again.
StreamWake ==
    /\ streamPc = "sleeping"
    /\ streamPc' = IF StreamGoesOn(isRunning(Agent), lastYieldedIndex, logs)
                   THEN "loop" ELSE "awaitRun"
    /\ UNCHANGED <<lastYieldedIndex, yielded, streamResult, agentVars,
                   outsideStream>>

\* `await runPromise`: the generator ends with what run() settled with.
StreamEnds ==
    /\ streamPc = "awaitRun" /\ runs[1].pc \in {"returned", "raised"}
    /\ streamPc' = IF runs[1].pc = "returned" THEN "done" ELSE "raised"
    /\ streamResult' = IF runs[1].pc = "returned"
                       THEN [kind |-> "return", value |-> runs[1].out]
                       ELSE [kind |-> "raise", value |-> runs[1].fault]
    /\ UNCHANGED <<lastYieldedIndex, yielded, agentVars, outsideStream>>

\* The step the run awaits settles while the generator is suspended.
StreamStep(o) ==
    /\ streamPc \in {"loop", "sleeping"}
    /\ StepReturn(1, o)

\* run() has raised while the generator is suspended in its loop: no handler
\* is attached to runPromise, and the runtime may end the process for the
\* unhandled rejection.
UnhandledRejection ==
    /\ streamPc \in {"loop", "sleeping"} /\ runs[1].pc = "raised"
    /\ streamPc' = "crashed"
    /\ UNCHANGED <<lastYieldedIndex, yielded, streamResult, agentVars,
                   outsideStream>>

\* The agent constructed, its maxSteps set from the options and the
\* collecting handler installed.
InitStream ==
    /\ mem = createMemory(0) /\ appended = <<>>
    /\ \E configured \in 1..MaxStepsBound :
          /\ state = "idle" /\ currentStep = 0 /\ maxSteps = configured
          /\ memory = createMemory(AgentMemoryMax) /\ logs = <<>>
          /\ onLog = "records"
          /\ runs = [r \in 1..MaxRuns |-> NewRun]
    /\ RestInit

NextStream ==
    \/ StreamStart
    \/ StreamYield
    \/ StreamSleep
    \/ StreamWake
    \/ StreamEnds
    \/ \E o \in StepOutcomes : StreamStep(o)
    \/ UnhandledRejection

SpecStream == InitStream /\ [][NextStream]_vars

\* C1: for every bounded memory and every sequence of appends, the system
\* turns held by the memory are exactly the system turns appended so far, in
\* the order of their appends: addToMemory never evicts a system turn.
C1_SystemTurnsNeverEvicted ==
    mem.maxMessages > 0 =>
        SelectSeq(mem.messages, IsSystem) = SelectSeq(appended, IsSystem)

\* An eviction has taken place in a bounded memory that holds a system turn.
C1_Witness ==
    /\ mem.maxMessages > 0
    /\ Len(mem.messages) < Len(appended)
    /\ \E i \in 1..Len(appended) : IsSystem(appended[i])
    /\ \E i \in 1..Len(mem.messages) : IsSystem(mem.messages[i])

\* C2: for every memory created with a positive maximum and every sequence
\* of appends, the number of turns held never exceeds the maximum.
C2_LengthWithinMax ==
    mem.maxMessages > 0 => Len(mem.messages) <= mem.maxMessages

\* ------------------------------------------------------------------------
\* The step loop: claims
\* ------------------------------------------------------------------------
RunIds == 1..MaxRuns

C4_EndsFinishedOrError ==
    [][\A r \in RunIds :
          (/\ runs[r].pc \in {"new", "await"}
           /\ runs'[r].pc \in {"returned", "raised"}
           /\ runs'[r].accepted)
          => state' \in {"finished", "error"}]_vars

\* C5: a call of run() made while the state is not idle raises the
\* re-entrancy fault and changes nothing: not the state, the step counter,
\* the memory or the logs, and not the standing of any other call of run().
C5_RejectedRunChangesNothing ==
    [][\A r \in RunIds :
          (runs[r].pc = "new" /\ runs'[r].pc # "new" /\ state # "idle")
          => /\ runs'[r].pc = "raised"
             /\ runs'[r].fault = ReentrancyFault
             /\ ~runs'[r].accepted
             /\ UNCHANGED <<state, currentStep, maxSteps, memory, logs, onLog>>
             /\ \A q \in RunIds \ {r} : runs'[q] = runs[q]]_vars

\* A call was rejected while an earlier one was suspended in its step.
C5_Witness ==
    \E r, q \in RunIds :
        /\ runs[r].pc = "raised" /\ runs[r].fault = ReentrancyFault
        /\ runs[q].pc = "await" /\ runs[q].steps > 0
        /\ Len(logs) > 0 /\ Len(memory.messages) > 0

\* C6: at no time are two calls of run() in progress on the one instance.
C6_OneRunInProgress ==
    Cardinality({r \in RunIds : runs[r].pc = "await"}) <= 1

\* C7: the state changes only idle->running, running->finished and
\* running->error, and to idle only by clearMemory (which is no part of a
\* call of run()).
C7_LegalTransitions ==
    [][state' # state =>
          \/ <<state, state'>> \in {<<"idle", "running">>,
                                     <<"running", "finished">>,
                                     <<"running", "error">>}
          \/ state' = "idle" /\ UNCHANGED runs]_vars

C12_ToolTurnsKeepTheirRequest ==
    LET m == mem.messages
    IN \A i \in 1..Len(m) :
          m[i].role = "tool" =>
             LET j == LastAssistant(SubSeq(m, 1, i - 1))
             IN /\ j > 0
                /\ \E c \in 1..Len(m[j].toolCalls) :
                      m[j].toolCalls[c] = m[i].toolCallId

\* ------------------------------------------------------------------------
\* The tool collection: claims
\* ------------------------------------------------------------------------
\* C13: a call of ToolCollection.execute with a name that is not registered
\* does not raise and returns the 'tool not found' failure, its error field
\* set and no output, whatever the name and the arguments.
C13_UnknownToolIsAFailureResult ==
    (lastCall # NoCall /\ ~lastCall.registered) =>
        /\ ~lastCall.raised
        /\ lastCall.result.error = "Tool not found: " \o lastCall.name
        /\ lastCall.result.output = Absent

\* A call with a name nobody registered, and one with the name of a tool
\* that is not registered yet while another tool is.
C13_Witness ==
    /\ ~lastCall.registered
    /\ lastCall.name = "bash"
    /\ getNames(tools) = {"read_file"}
    /\ lastCall.result.error = "Tool not found: bash"

\* C14: a call of ToolCollection.execute with a registered name never
\* raises, and when the tool's own execute raised, the result has its error
\* field set and no output.
C14_ToolFaultsBecomeResults ==
    (lastCall # NoCall /\ lastCall.registered) =>
        /\ ~lastCall.raised
        /\ lastCall.toolRaised =>
              /\ lastCall.result.error # Absent
              /\ lastCall.result.output = Absent

\* A registered tool whose execute raised a value that is not an Error.
C14_Witness ==
    /\ lastCall.registered /\ lastCall.toolRaised
    /\ tools[lastCall.name] = "raisesValue"
    /\ lastCall.result = failResponse("Unknown error")

Failed(result) == result.error # Absent

\* C15: a call of ToolCollection.execute leaves the registered tools as
\* they were (names and size included), and a call that repeats the call
\* before it, name and arguments, has the same success/failure
\* classification.
C15_ExecuteLeavesTheRegistry ==
    [][executed' # executed =>
          /\ tools' = tools
          /\ getNames(tools') = getNames(tools)
          /\ size(tools') = size(tools)
          /\ lastCall'.again =>
                /\ Failed(lastCall'.result) = Failed(lastCall.result)
                /\ lastCall'.raised = lastCall.raised]_vars

\* The same call of a registered tool made twice, and failing both times.
C15_Witness ==
    /\ lastCall.again /\ lastCall.registered
    /\ lastCall.name \in getNames(tools)
    /\ Failed(lastCall.result)
    /\ executed >= 2

\* ------------------------------------------------------------------------
\* The stuck-loop detector: claims
\* ------------------------------------------------------------------------
\* Two assistant turns with the same content among the most recent
\* StuckWindow turns.
RepeatInWindow(messages) ==
    \E i, j \in 1..Len(messages) :
       /\ i < j
       /\ i > Len(messages) - StuckWindow
       /\ messages[i].role = "assistant" /\ messages[j].role = "assistant"
       /\ messages[i].content = messages[j].content

\* C16 as stated: the detector reports stuck exactly when two assistant
\* turns among the most recent 4 turns have the same content.
C16_StuckIffRepeatInWindow ==
    isStuck([memory |-> mem]) <=> RepeatInWindow(mem.messages)

\* C16 amended: the detector reports stuck exactly when memory holds at
\* least 4 turns and two assistant turns among the most recent 4 have the
\* same content; with fewer than 4 turns in memory it reports not-stuck.
C16_StuckIffRepeatInFullWindow ==
    isStuck([memory |-> mem]) <=>
        (Len(mem.messages) >= StuckWindow /\ RepeatInWindow(mem.messages))

\* Stuck on a window that also holds an assistant turn of another content.
C16_Witness ==
    /\ isStuck([memory |-> mem])
    /\ \E i, j \in 1..Len(mem.messages) :
          /\ i > Len(mem.messages) - StuckWindow
          /\ j > Len(mem.messages) - StuckWindow
          /\ mem.messages[i].role = "assistant"
          /\ mem.messages[j].role = "assistant"
          /\ mem.messages[i].content # mem.messages[j].content

\* The corrective turns among the turns of a memory.
Correctives(messages) ==
    Len(SelectSeq(messages, LAMBDA m : m = systemMessage("change-strategy")))

\* C17: a step that begins (the step counter goes up and the model request
\* is sent) appends exactly one corrective system turn, as the last turn
\* before the request, when the detector reports stuck on the memory the
\* step finds, and none when it does not, whatever earlier steps appended.
C17_OneCorrectiveTurnPerStuckStep ==
    [][(currentStep' = currentStep + 1
        /\ \E r \in RunIds : runs'[r].pc = "await") =>
          LET after == memory'.messages
              added == Correctives(after) - Correctives(memory.messages)
              found == SubSeq(after, 1, Len(after) - added)
          IN /\ added \in {0, 1}
             /\ added = 1 <=> isStuck([memory |->
                                  [memory' EXCEPT !.messages = found]])
             /\ added = 1 => after[Len(after)] = systemMessage("change-strategy")
      ]_vars

\* A memory with two corrective turns, of two steps in a row.
C17_Witness ==
    /\ Correctives(memory.messages) = 2
    /\ \E i \in 1..Len(memory.messages) - 2 :
          /\ memory.messages[i] = systemMessage("change-strategy")
          /\ memory.messages[i + 1].role = "assistant"
          /\ memory.messages[i + 2] = systemMessage("change-strategy")
    /\ \E r \in RunIds : runs[r].pc = "await"

\* ------------------------------------------------------------------------
\* Multi-task mode: claims
\* ------------------------------------------------------------------------
\* C18: every task settles with the outcome of its own runCodingTask, and
\* once the wait on the tasks is over it ended normally, all N tasks have
\* settled, and there is one result per prompt, in the order of the prompts.
C18_AllTasksSettleOnTheirOwn ==
    /\ \A i \in DOMAIN tasks :
          tasks[i].status # "running" =>
             /\ tasks[i].status = "resolved"
             /\ tasks[i].value.success = (tasks[i].outcome.kind = "success")
    /\ multiPc \in {"done", "failed"} =>
          /\ multiPc = "done"
          /\ \A i \in DOMAIN tasks : tasks[i].status = "resolved"
          /\ Len(results) = Len(tasks)
          /\ \A i \in DOMAIN tasks : results[i].prompt = tasks[i].prompt

\* Three tasks, the first to settle raised, the next failed, the third
\* succeeded after both, and the wait is over.
C18_Witness ==
    /\ multiPc = "done" /\ Len(tasks) = 3
    /\ order = <<1, 2, 3>>
    /\ tasks[1].outcome.kind = "raise"
    /\ tasks[2].outcome.kind = "failure"
    /\ results[3].success

Succeeded == {i \in DOMAIN tasks : tasks[i].outcome.kind = "success"}

RECURSIVE UsageOf(_)
UsageOf(ids) ==
    IF ids = {} THEN ZeroUsage
    ELSE LET i == CHOOSE j \in ids : TRUE
         IN addUsage(UsageOf(ids \ {i}), tasks[i].outcome.usage)

\* C19: whatever the order the tasks settled in, once the wait is over the
\* success count is the number of tasks that reported success and the
\* aggregated token counts are the sums over those tasks.
C19_SummaryIndependentOfOrder ==
    multiPc = "done" =>
        /\ successCount(results) = Cardinality(Succeeded)
        /\ totalUsage = UsageOf(Succeeded)

\* Three tasks settled last to first, the second failed: 2 of 3 succeeded.
C19_Witness ==
    /\ multiPc = "done" /\ Len(tasks) = 3
    /\ order = <<3, 2, 1>>
    /\ tasks[2].outcome.kind = "failure"
    /\ successCount(results) = 2
    /\ results[1].usage.totalTokens > 0 /\ results[3].usage.totalTokens > 0
    /\ totalUsage.totalTokens
          = results[1].usage.totalTokens + results[3].usage.totalTokens

\* ------------------------------------------------------------------------
\* Pipeline mode: claims
\* ------------------------------------------------------------------------
\* C20: a stage is started only when it is the first or the stage before it
\* returned success; a stage that failed or raised is the last one started
\* and ends the pipeline; and the stage-result list holds, in order, the
\* results of the stages that succeeded.
C20_FailFast ==
    /\ \A k \in 1..Len(stagesRun) :
          /\ k > 1 => /\ stagesRun[k - 1].outcome = "success"
                      /\ stagesRun[k].stage = stagesRun[k - 1].stage + 1
          /\ stagesRun[k].outcome \in {"failure", "raise"} =>
                k = Len(stagesRun) /\ pipePc = "finished"
    /\ LET succeeded == SelectSeq(stagesRun, LAMBDA r : r.outcome = "success")
       IN /\ Len(stageResults) = Len(succeeded)
          /\ \A k \in 1..Len(stageResults) :
                /\ stageResults[k].stage = succeeded[k].stage
                /\ stageResults[k].result = succeeded[k].result

\* Stage 2 failed after stage 1 succeeded: the pipeline is over, stage 3
\* was not started, and stage 1's result is in the list.
C20_Witness ==
    /\ pipePc = "finished"
    /\ Len(stagesRun) = 2
    /\ stagesRun[1].outcome = "success" /\ stagesRun[2].outcome = "failure"
    /\ Len(stageResults) = 1 /\ stageResults[1].stage = 1

\* Every stage of the pipeline was started and succeeded.
EveryStageSucceeded ==
    /\ Len(stagesRun) = Len(PIPELINE_STAGES)
    /\ \A k \in 1..Len(stagesRun) : stagesRun[k].outcome = "success"

\* C21 as stated: the finished pipeline prints a final result exactly when
\* every stage succeeded, and what it prints is the last stage's output.
C21_FinalResultIsLastOutput ==
    pipePc = "finished" =>
        /\ pipeReport.printed <=> EveryStageSucceeded
        /\ pipeReport.printed =>
              pipeReport.text = Whole(stagesRun[Len(stagesRun)].result)

\* C21 amended: the finished pipeline prints a final result exactly when
\* every stage succeeded, and what it prints is the first 500 characters of
\* the last stage's output, marked as cut when the output is longer.
C21_FinalResultIsLastOutputCut ==
    pipePc = "finished" =>
        /\ pipeReport.printed <=> EveryStageSucceeded
        /\ pipeReport.printed =>
              LET last == stagesRun[Len(stagesRun)].result
              IN /\ pipeReport.text.of = last
                 /\ pipeReport.text.chars
                       = IF TextLength(last) <= DisplayLimit
                         THEN TextLength(last) ELSE DisplayLimit
                 /\ pipeReport.elided <=> TextLength(last) > DisplayLimit

\* All three stages succeeded and the last output is longer than what is
\* displayed.
C21_Witness ==
    /\ pipePc = "finished" /\ EveryStageSucceeded
    /\ pipeReport.printed /\ pipeReport.elided
    /\ stagesRun[1].result = "plan"

\* What a finished pipeline says about the run as a whole: its closing
\* banner and the status the process ends with.
OverallSuccess(report) ==
    report.banner = "pipeline-complete" /\ report.exitCode = 0

\* C22: the finished pipeline indicates overall success only if every
\* stage succeeded, and overall failure once a stage failed or raised.
C22_FailureIsReportedOverall ==
    pipePc = "finished" =>
        (OverallSuccess(pipeReport) <=> EveryStageSucceeded)

\* C23: every stage's prompt-construction function receives the original
\* request and, as previous result, the result text of the stage started
\* just before it, the empty text for the first stage.
C23_PromptFromImmediatePredecessor ==
    \A k \in 1..Len(stagesRun) :
       /\ stagesRun[k].stage = k
       /\ stagesRun[k].input = pipePrompt
       /\ stagesRun[k].prev = IF k = 1 THEN "" ELSE stagesRun[k - 1].result
       /\ stagesRun[k].prompt
             = promptTemplate(k, pipePrompt,
                              IF k = 1 THEN "" ELSE stagesRun[k - 1].result)

\* The third stage is started with the second stage's result, which is not
\* the first stage's.
C23_Witness ==
    /\ Len(stagesRun) = 3
    /\ stagesRun[1].result = "plan" /\ stagesRun[2].result = "code"
    /\ stagesRun[3].prev = "code"
    /\ stagesRun[3].input = "fix-bug"

\* ------------------------------------------------------------------------
\* runCodingTask: claims
\* ------------------------------------------------------------------------
\* C24: the promise of runCodingTask is never rejected, and once resolved
\* its record has the success flag of the run, the run's message or the
\* fault's message, and the agent's logs up to there.
C24_EveryTaskYieldsAHandle ==
    /\ taskPc # "rejected"
    /\ taskPc = "resolved" =>
          /\ handle.success <=> runs[1].pc = "returned"
          /\ handle.result = IF handle.success THEN runs[1].out
                             ELSE runs[1].fault
          /\ handle.logs = logs

\* ------------------------------------------------------------------------
\* The interactive queue: claims
\* ------------------------------------------------------------------------
\* C25: once the interactive front end has quit, no task is left with the
\* status running, and every task has a completion or failure report.
C25_QuitFailsRunningTasks ==
    exited =>
        \A i \in 1..Len(qTasks) :
            /\ qTasks[i].status # "running"
            /\ \E r \in reports : r.id = qTasks[i].id

\* C26: while the front end has not quit exactly one callback is armed, and
\* every handled line that is not quit leaves exactly one armed, whatever the
\* tasks are doing.
C26_OnePromptArmedAfterEveryLine ==
    /\ [](~exited => armed = 1)
    /\ [][(lines' # lines /\ ~exited') => armed' = 1]_vars

\* Two tasks are running, the second accepted while the first ran, and the
\* callback for the next line is armed.
C26_Witness ==
    /\ Len(qTasks) = 2 /\ lines >= 2 /\ ~exited /\ armed = 1
    /\ \A i \in 1..2 : qTasks[i].status = "running" /\ qTasks[i].worker = "working"

\* C27: a step in which the worker of one task delivers an event leaves the
\* record of every other task as it was.
C27_WorkerEventTouchesOwnTaskOnly ==
    [][\A i, j \in 1..Len(qTasks) :
          (/\ Len(qTasks') = Len(qTasks) /\ ~exited'
           /\ i # j /\ qTasks'[i].worker # qTasks[i].worker)
          => qTasks'[j] = qTasks[j]]_vars

\* The worker of one task has raised and the task is failed, while another
\* task is still running untouched.
C27_Witness ==
    \E i, j \in 1..Len(qTasks) :
        /\ i # j
        /\ qTasks[i].worker = "crashed" /\ qTasks[i].status = "failed"
        /\ qTasks[j].worker = "working" /\ qTasks[j].status = "running"
        /\ ~qTasks[j].ended

\* ------------------------------------------------------------------------
\* External calls, the user store and the REST application: claims
\* ------------------------------------------------------------------------
\* C28: every external call a loop issues carries a timeout, so that no call
\* waits without one for a collaborator that does not answer.
C28_EveryExternalCallHasTimeout ==
    \A k \in 1..Len(externalCalls) : externalCalls[k].timeout # NoTimeout

\* Stored users that createUser returned, in the order of their creation.
StoredInCreationOrder ==
    SelectSeq(created,
              LAMBDA u : \E k \in 1..Len(userStore.users) :
                             userStore.users[k].id = u.id)

\* C29: after any sequence of createUser and deleteUser calls the count is
\* the number of createUser calls minus the number of deleteUser calls that
\* returned true, and getAllUsers is the stored users in creation order.
C29_CountAndOrder ==
    /\ getUserCount(userStore) = Len(created) - removed
    /\ getAllUsers(userStore) = StoredInCreationOrder

\* Three users were created and the first was deleted: two are stored.
C29_Witness ==
    /\ Len(created) = 3 /\ removed = 1
    /\ getUserCount(userStore) = 2
    /\ \A k \in 1..2 : userStore.users[k].id # created[1].id

MostRecent(s, k) ==
    IF k <= 0 THEN <<>>
    ELSE SubSeq(s, (IF Len(s) > k THEN Len(s) - k ELSE 0) + 1, Len(s))

\* C31: an append that makes the size exceed the maximum leaves all system
\* turns together with exactly the most recent (maximum - system count)
\* non-system turns, in their order.
C31_EvictionKeepsMostRecent ==
    [][(/\ Len(appended') = Len(appended) + 1
        /\ mem.maxMessages > 0
        /\ Len(mem.messages) + 1 > mem.maxMessages)
       => LET all == Append(mem.messages, appended'[Len(appended')])
              system == SelectSeq(all, IsSystem)
              others == SelectSeq(all, NotSystem)
          IN /\ SelectSeq(mem'.messages, IsSystem) = system
             /\ SelectSeq(mem'.messages, NotSystem) =
                   MostRecent(others, mem.maxMessages - Len(system))]_vars

\* s is t with some of its turns left out.
RECURSIVE IsSubsequence(_, _)
IsSubsequence(s, t) ==
    IF s = <<>> THEN TRUE
    ELSE IF t = <<>> THEN FALSE
    ELSE IF Head(s) = Head(t) THEN IsSubsequence(Tail(s), Tail(t))
    ELSE IsSubsequence(s, Tail(t))

\* C32: the turns held by the memory appear in the order in which they were
\* appended, whatever their roles.
C32_MemoryKeepsAppendOrder == IsSubsequence(mem.messages, appended)

\* C33: once run has appended the request, the request turn is held by the
\* memory, however many turns the steps append after it.
C33_RequestStaysInMemory ==
    Requested(appended) => Requested(mem.messages)

\* The memory with the tool calls of every turn left out.
WithoutToolCalls(m) ==
    [m EXCEPT !.messages = [i \in 1..Len(m.messages) |->
                               [m.messages[i] EXCEPT !.toolCalls = <<>>]]]

\* Two assistant turns without text among the last StuckWindow turns of a
\* memory that holds at least StuckWindow turns, with the given relation
\* between their tool calls.
TextlessPair(m, differ) ==
    /\ Len(m.messages) >= StuckWindow
    /\ \E i, j \in (Len(m.messages) - StuckWindow + 1)..Len(m.messages) :
          /\ i < j
          /\ m.messages[i].role = "assistant" /\ m.messages[i].content = "<null>"
          /\ m.messages[j].role = "assistant" /\ m.messages[j].content = "<null>"
          /\ differ => /\ m.messages[i].toolCalls # <<>>
                       /\ m.messages[j].toolCalls # <<>>
                       /\ m.messages[i].toolCalls # m.messages[j].toolCalls

\* C34: the detector's answer is the same with the tool calls left out, and
\* two assistant turns without text among the last four turns are a
\* repetition.
C34_StuckDecidedOnTextAlone ==
    /\ isStuck(Agent) = isStuck([Agent EXCEPT !.memory = WithoutToolCalls(@)])
    /\ TextlessPair(memory, FALSE) => isStuck(Agent)

\* Two assistant turns without text that request different tool calls are
\* among the last four turns, and the detector reports a repetition.
C34_Witness == TextlessPair(memory, TRUE) /\ isStuck(Agent)

\* ------------------------------------------------------------------------
\* The interactive queue: settled tasks and working directories
\* ------------------------------------------------------------------------
\* The reports printed for task i.
ReportsOf(i) == {r \in reports : r.id = qTasks[i].id}

\* C37: a task that is completed or failed keeps that status in every later
\* step, and a task that is completed or failed has been reported once.
C37_SettledTaskStaysSettled ==
    /\ [][\A i \in 1..Len(qTasks) :
             qTasks[i].status \in {"completed", "failed"}
                => qTasks'[i].status = qTasks[i].status]_vars
    /\ [](\A i \in 1..Len(qTasks) :
             qTasks[i].status \in {"completed", "failed"}
                => Cardinality(ReportsOf(i)) = 1)

\* C38: a task whose worker has started works in the directory recorded in
\* its task record at submission.
C38_TaskWorksWhereSubmitted ==
    \A i \in 1..Len(qTasks) :
        qTasks[i].projectPath # "" => qTasks[i].projectPath = qTasks[i].cwd

\* ------------------------------------------------------------------------
\* Pipeline mode: a stage that uses up its step budget
\* ------------------------------------------------------------------------
\* C36: a stage whose loop ended by step-budget exhaustion is a successful
\* stage: its result is in the stage-result list, and when a stage follows
\* it that stage was started with the budget-exhausted message as the
\* previous result.
C36_BudgetExhaustionIsSuccess ==
    \A k \in 1..Len(stagesRun) :
        (stagesRun[k].outcome # "pending" /\ stagesRun[k].result = BudgetMessage)
        => /\ stagesRun[k].outcome = "success"
           /\ \E r \in 1..Len(stageResults) :
                 /\ stageResults[r].stage = stagesRun[k].stage
                 /\ stageResults[r].result = BudgetMessage
           /\ stagesRun[k].stage < Len(PIPELINE_STAGES) =>
                 /\ Len(stagesRun) > k
                 /\ stagesRun[k + 1].stage = stagesRun[k].stage + 1
                 /\ stagesRun[k + 1].prev = BudgetMessage

\* The first stage used up its budget and the second stage is running with
\* the budget-exhausted message as its previous result.
C36_Witness ==
    /\ Len(stagesRun) = 2 /\ pipePc = "awaiting"
    /\ stagesRun[1].outcome = "success" /\ stagesRun[1].result = BudgetMessage
    /\ stagesRun[2].prev = BudgetMessage /\ prevResult = BudgetMessage

\* ------------------------------------------------------------------------
\* Model selection and the event stream: claims
\* ------------------------------------------------------------------------
\* C35: two agents constructed with the same model id report the same
\* selected model and send their requests with the same model, whatever
\* agents were constructed before them.
C35_ModelDependsOnOwnConfigOnly ==
    \A i, j \in 1..Len(agents) :
        agents[i].modelId = agents[j].modelId
        => /\ agents[i].selectedModel = agents[j].selectedModel
           /\ agents[i].llm = agents[j].llm

\* s is the beginning of t.
IsPrefix(s, t) == Len(s) <= Len(t) /\ s = SubSeq(t, 1, Len(s))

\* C39: the events yielded are the agent's events in emission order, the
\* generator does not end before all of them were yielded, and it ends by
\* returning run's result or raising run's fault.
C39_StreamYieldsEveryEventThenEnds ==
    /\ IsPrefix(yielded, logs)
    /\ streamPc # "crashed"
    /\ streamPc \in {"done", "raised"} =>
          /\ yielded = logs
          /\ streamResult.value = IF streamPc = "done" THEN runs[1].out
                                  ELSE runs[1].fault

\* C40: getLastMessages(memory, n) is the last min(n, size) turns of the
\* memory in their stored order for every n >= 0, no turns for n = 0.
C40_LastMessagesAreTheMostRecent ==
    \A n \in 0..(MaxAppends + 1) :
        getLastMessages(mem, n) = MostRecent(mem.messages, n)

====
